---- MODULE Spec2Model ----
(***************************************************************************)
(* Impedance-control layout guide generator: the pipeline                  *)
(*   NetlistParser -> NetClassifier -> RuleEngine -> TemplateMapper        *)
(* of src/src/core and its driver src/src/main.py.                         *)
(*                                                                         *)
(* Text is a sequence of one-character strings, so that strip, split,      *)
(* upper, substring search and comparison are computed character by        *)
(* character as Python computes them.                                      *)
(***************************************************************************)
EXTENDS Integers, Sequences, FiniteSets, TLC

(***************************************************************************)
(* Bounds of the model.                                                    *)
(***************************************************************************)
\* lines of a netlist file
MaxLines == 2
\* rules of a classification rule mapping
MaxRules == 2
\* net names of one classify call
MaxNets == 2
\* nets of the layout data given to the template mapper
MaxLayoutNets == 2
\* classified nets of one apply_rules call
MaxClassified == 2
\* classify calls on one classifier
MaxCalls == 3
\* add_custom_rule calls that change the rules of one classifier
MaxAdds == 1
MaxColumnCalls == 2
MaxTestNets == 2

VARIABLES
    netlist_file,           \* the file NetlistParser.parse is given
    parse_out,              \* what parse did: its locals and its result
    classification_rules,   \* NetClassifier.classification_rules, in dict order
    classify_in,            \* the list of net names classify is given
    classify_out,           \* what classify did
    map_in,                 \* the arguments of map_to_template and the disk
    map_out,                \* what map_to_template did, the file written
    run_in,                 \* the arguments of process_netlist_to_excel
    run_out,                \* what the run did
    engine_in,              \* the config of a RuleEngine and the nets apply_rules is given
    engine_out,             \* what apply_rules did
    reorder_out,            \* what _reorder_columns did with the frame of map_in
    classify_log,           \* the classify calls made on one classifier so far
    rules_epoch,            \* how many add_custom_rule calls have changed its rules
    template_file,          \* the template file validate_template is given
    validate_out,           \* what validate_template did
    engine_layout_rules,    \* RuleEngine.layout_rules of one engine
    engine_log,             \* the calls made on that engine so far
    ctl_layout_rules,       \* LayoutRuleController.layout_rules
    ctl_signals,            \* the signals the controller has emitted
    ctl_records,            \* the records its logger has written
    ctl_out,                \* what the last add_rule did
    model_signal_rules,     \* ConfigurationModel.signal_rules, in dict order
    model_layout_rules,     \* ConfigurationModel.layout_rules, in dict order
    config_file_path,       \* ConfigurationModel.config_file_path
    is_modified,            \* ConfigurationController.is_modified
    undo_stack,             \* ConfigurationController.undo_stack
    redo_stack,             \* ConfigurationController.redo_stack
    config_log,             \* the calls made on the controller and its model so far
    worker_pc,              \* where NetlistProcessingThread.run stands
    worker_iter,            \* the dict iterator of _build_config_data in the worker
    worker_data,            \* the net_classification_rules the worker has built so far
    worker_out,             \* the temporary config file and the signal of the run
    model_history,          \* the configurations the model has had since the run began
    tm_columns,             \* TemplateMappingModel.columns, in dict order
    tm_column_order,        \* TemplateMappingModel.column_order
    tm_hidden_columns,      \* TemplateMappingModel.hidden_columns
    tm_custom_headers,      \* TemplateMappingModel.custom_headers
    tm_log,                 \* the calls the template mapping model has had
    tester_in,              \* the rule and the net name the rule tester is given
    tester_out              \* the verdicts of matches_net and of _matches_rule

parserVars == <<netlist_file, parse_out>>
classifierVars ==
    <<classification_rules, classify_in, classify_out, classify_log, rules_epoch>>
mapperVars == <<map_in, map_out, reorder_out>>
runVars == <<run_in, run_out>>
engineVars == <<engine_in, engine_out>>
coreVars == <<parserVars, classifierVars, mapperVars, runVars, engineVars>>
templateVars == <<template_file, validate_out>>
engineSessionVars == <<engine_layout_rules, engine_log>>
controllerVars == <<ctl_layout_rules, ctl_signals, ctl_records, ctl_out>>
configVars ==
    <<model_signal_rules, model_layout_rules, config_file_path, is_modified,
      undo_stack, redo_stack, config_log>>
workerVars == <<worker_pc, worker_iter, worker_data, worker_out, model_history>>
mappingVars ==
    <<tm_columns, tm_column_order, tm_hidden_columns, tm_custom_headers, tm_log>>
testerVars == <<tester_in, tester_out>>
\* everything but the template mapping model
besideMapping ==
    <<coreVars, templateVars, engineSessionVars, controllerVars, configVars, workerVars,
      testerVars>>
\* everything but the configuration model, its controller and the worker
besideConfig ==
    <<coreVars, templateVars, engineSessionVars, controllerVars, mappingVars, testerVars>>
\* the variables of the components beside the pipeline
guiVars ==
    <<templateVars, engineSessionVars, controllerVars, configVars, workerVars,
      mappingVars, testerVars>>
vars == <<netlist_file, parse_out, classification_rules, classify_in, classify_out,
          map_in, map_out, run_in, run_out, engine_in, engine_out,
          reorder_out, classify_log, rules_epoch, template_file, validate_out,
          engine_layout_rules, engine_log, ctl_layout_rules, ctl_signals, ctl_records,
          ctl_out, model_signal_rules, model_layout_rules, config_file_path,
          is_modified, undo_stack, redo_stack, config_log, worker_pc, worker_iter,
          worker_data, worker_out, model_history, tm_columns, tm_column_order,
          tm_hidden_columns, tm_custom_headers, tm_log, tester_in, tester_out>>

(***************************************************************************)
(* Characters and strings (Python str).                                    *)
(***************************************************************************)
\* the printable ASCII characters in code-point order, 32 (space) .. 126 (~);
\* the two quotes, the backslash and the backquote are place holders, no text uses them
AsciiPrintable ==
    <<" ", "!", "<dq>", "#", "$", "%", "&", "<sq>", "(", ")", "*", "+", ",", "-", ".", "/",
      "0", "1", "2", "3", "4", "5", "6", "7", "8", "9", ":", ";", "<", "=", ">", "?",
      "@", "A", "B", "C", "D", "E", "F", "G", "H", "I", "J", "K", "L", "M", "N", "O",
      "P", "Q", "R", "S", "T", "U", "V", "W", "X", "Y", "Z", "[", "<bs>", "]", "^", "_",
      "<bq>", "a", "b", "c", "d", "e", "f", "g", "h", "i", "j", "k", "l", "m", "n", "o",
      "p", "q", "r", "s", "t", "u", "v", "w", "x", "y", "z", "{", "|", "}", "~">>

\* the code points of the characters of the model
OrdTable ==
    [c \in {AsciiPrintable[i] : i \in 1..Len(AsciiPrintable)} \cup {"\t", "\n", "\r"} |->
        IF c = "\t" THEN 9
        ELSE IF c = "\n" THEN 10
        ELSE IF c = "\r" THEN 13
        ELSE 31 + (CHOOSE i \in 1..Len(AsciiPrintable) : AsciiPrintable[i] = c)]

\* ord(c): the code point, by which Python compares strings
Ord(c) == OrdTable[c]

Chr(n) == AsciiPrintable[n - 31]

IsDigit(c) == Ord(c) >= 48 /\ Ord(c) <= 57
IsUpperAlpha(c) == Ord(c) >= 65 /\ Ord(c) <= 90
IsLowerAlpha(c) == Ord(c) >= 97 /\ Ord(c) <= 122
IsAlpha(c) == IsUpperAlpha(c) \/ IsLowerAlpha(c)
IsSpace(c) == c \in {" ", "\t", "\n", "\r"}
IsLineBreak(c) == c \in {"\n", "\r"}

\* str.upper() on one character
UpperChar(c) == IF IsLowerAlpha(c) THEN Chr(Ord(c) - 32) ELSE c

\* str.upper()
Upper(s) == [i \in 1..Len(s) |-> UpperChar(s[i])]

\* s[i:] (1-based, i may be Len(s)+1)
Drop(s, i) == SubSeq(s, i, Len(s))

\* needle in hay: some window of hay equals needle
Contains(hay, needle) ==
    \E i \in 1..(Len(hay) - Len(needle) + 1) :
        SubSeq(hay, i, i + Len(needle) - 1) = needle

\* s < t in the string order of Python: code points, left to right, a prefix first
RECURSIVE StrLess(_, _)
StrLess(s, t) ==
    IF t = <<>> THEN FALSE
    ELSE IF s = <<>> THEN TRUE
    ELSE IF Ord(s[1]) < Ord(t[1]) THEN TRUE
    ELSE IF Ord(s[1]) > Ord(t[1]) THEN FALSE
    ELSE StrLess(Tail(s), Tail(t))

\* str.strip(): leading and trailing whitespace removed
RECURSIVE LStrip(_)
LStrip(s) == IF s # <<>> /\ IsSpace(s[1]) THEN LStrip(Tail(s)) ELSE s

RECURSIVE RStrip(_)
RStrip(s) ==
    IF s # <<>> /\ IsSpace(s[Len(s)]) THEN RStrip(SubSeq(s, 1, Len(s) - 1)) ELSE s

Strip(s) == RStrip(LStrip(s))

\* str.split(): the maximal runs of non-whitespace, in order
RECURSIVE SplitWs(_, _, _)
SplitWs(s, cur, acc) ==
    IF s = <<>> THEN (IF cur = <<>> THEN acc ELSE Append(acc, cur))
    ELSE IF IsSpace(s[1])
         THEN SplitWs(Tail(s), <<>>, IF cur = <<>> THEN acc ELSE Append(acc, cur))
         ELSE SplitWs(Tail(s), Append(cur, s[1]), acc)

Split(s) == SplitWs(s, <<>>, <<>>)

\* str.splitlines(): breaks at \n, \r and \r\n; no empty last line
RECURSIVE SplitLinesAcc(_, _, _)
SplitLinesAcc(s, cur, acc) ==
    IF s = <<>> THEN (IF cur = <<>> THEN acc ELSE Append(acc, cur))
    ELSE IF s[1] = "\r" /\ Len(s) >= 2 /\ s[2] = "\n"
         THEN SplitLinesAcc(Drop(s, 3), <<>>, Append(acc, cur))
    ELSE IF IsLineBreak(s[1])
         THEN SplitLinesAcc(Tail(s), <<>>, Append(acc, cur))
         ELSE SplitLinesAcc(Tail(s), Append(cur, s[1]), acc)

SplitLines(s) == SplitLinesAcc(s, <<>>, <<>>)

\* the elements of a list
Range(seq) == {seq[i] : i \in 1..Len(seq)}

\* sorted(a set of strings)
RECURSIVE SortedStrs(_)
SortedStrs(S) ==
    IF S = {} THEN <<>>
    ELSE LET m == CHOOSE x \in S : \A y \in S \ {x} : StrLess(x, y)
         IN <<m>> \o SortedStrs(S \ {m})

(***************************************************************************)
(* NetlistParser (src/src/core/netlist_parser.py).                         *)
(***************************************************************************)
\* re.fullmatch(r'^[a-zA-Z][0-9]+$', word, re.IGNORECASE): R123, c45
MatchComponentRef(word) ==
    /\ Len(word) >= 2
    /\ IsAlpha(word[1])
    /\ \A i \in 2..Len(word) : IsDigit(word[i])

\* re.fullmatch(r'^[0-9]+$', word, re.IGNORECASE)
MatchPureNumber(word) ==
    /\ Len(word) >= 1
    /\ \A i \in 1..Len(word) : IsDigit(word[i])

\* re.fullmatch(r'^[0-9]+(ohm|f|h)$', word, re.IGNORECASE): 10ohm, 22F, 1h
MatchComponentValue(word) ==
    \E k \in 1..(Len(word) - 1) :
        /\ \A i \in 1..k : IsDigit(word[i])
        /\ Upper(Drop(word, k + 1)) \in {<<"O", "H", "M">>, <<"F">>, <<"H">>}

\* self.excluded_patterns, in order
excluded_patterns == <<"component_ref", "pure_number", "component_value">>

FullMatch(pattern, word) ==
    CASE pattern = "component_ref" -> MatchComponentRef(word)
      [] pattern = "pure_number" -> MatchPureNumber(word)
      [] pattern = "component_value" -> MatchComponentValue(word)

\* a slip: the component-value pattern is left out of the list
IsExcludedWord_NoValuePattern(word) ==
    \E i \in 1..2 : FullMatch(excluded_patterns[i], word)

\* _is_excluded_word
IsExcludedWord(word) ==
    \E i \in 1..Len(excluded_patterns) : FullMatch(excluded_patterns[i], word)

\* a slip: the test that the line starts with a digit is left out
ExtractFromLine_NoDigitTest(raw) ==
    LET line == Strip(raw) IN
    IF line = <<>> \/ line[1] = "*" \/ line[1] = "#" THEN <<>>
    ELSE LET parts == Split(line) IN
         IF Len(parts) > 1 /\ ~IsExcludedWord(parts[2]) THEN <<parts[2]>> ELSE <<>>

\* the body of the loop of _extract_net_names: what one line appends
ExtractFromLine(raw) ==
    LET line == Strip(raw) IN
    IF line = <<>> \/ line[1] = "*" \/ line[1] = "#" THEN <<>>
    ELSE IF IsDigit(line[1])
         THEN LET parts == Split(line) IN
              IF Len(parts) > 1
              THEN LET potential_net == parts[2] IN
                   IF potential_net # <<>> /\ ~IsExcludedWord(potential_net)
                   THEN <<potential_net>>
                   ELSE <<>>
              ELSE <<>>
         ELSE <<>>

RECURSIVE ExtractLines(_)
ExtractLines(lines) ==
    IF lines = <<>> THEN <<>>
    ELSE ExtractFromLine(Head(lines)) \o ExtractLines(Tail(lines))

\* _extract_net_names
ExtractNetNames(content) == ExtractLines(SplitLines(content))

\* _filter_excluded_names
FilterExcludedNames(names) == SelectSeq(names, LAMBDA name : ~IsExcludedWord(name))

\* a slip: the list is returned as filtered, neither deduplicated nor sorted
SortedUnique_AsFiltered(names) == names

\* sorted(list(set(filtered_names)))
SortedUnique(names) == SortedStrs(Range(names))

\* no call of parse yet
NoParse == [status |-> "none"]

\* a slip: the handler catches OSError only, so the decode failure leaves parse
\* as it is
ParseFile_DecodeErrorEscapes(file) ==
    IF ~file.exists
    THEN [status |-> "raised", exc |-> "NetlistParseError", cause |-> "NetlistParseError"]
    ELSE IF ~file.readable
    THEN [status |-> "raised", exc |-> "NetlistParseError", cause |-> "OSError"]
    ELSE IF ~file.decodable
    THEN [status |-> "raised", exc |-> "UnicodeDecodeError", cause |-> "UnicodeDecodeError"]
    ELSE LET net_names == ExtractNetNames(file.content)
             filtered_names == FilterExcludedNames(net_names)
         IN [status |-> "returned",
             net_names |-> net_names,
             filtered_names |-> filtered_names,
             value |-> SortedUnique(filtered_names)]

\* parse: every exception of the body, its own "not found" included, leaves as
\* NetlistParseError carrying str(e)
ParseFile(file) ==
    IF ~file.exists
    THEN [status |-> "raised", exc |-> "NetlistParseError", cause |-> "NetlistParseError"]
    ELSE IF ~file.readable
    THEN [status |-> "raised", exc |-> "NetlistParseError", cause |-> "OSError"]
    ELSE IF ~file.decodable
    THEN [status |-> "raised", exc |-> "NetlistParseError", cause |-> "UnicodeDecodeError"]
    ELSE LET net_names == ExtractNetNames(file.content)
             filtered_names == FilterExcludedNames(net_names)
         IN [status |-> "returned",
             net_names |-> net_names,
             filtered_names |-> filtered_names,
             value |-> SortedUnique(filtered_names)]

(***************************************************************************)
(* Regular expressions (Python re), for the patterns this model uses:      *)
(* literal characters, ".", a postfix "*", "^" first and "$" last.         *)
(***************************************************************************)
\* re.IGNORECASE: two characters are the same letter in either case
SameCharIgnoreCase(a, b) == UpperChar(a) = UpperChar(b)

\* one pattern character against one text character
AtomMatches(a, c) == a = "." \/ SameCharIgnoreCase(a, c)

\* re.error on compile: a "*" with nothing to repeat, or a repeat of a repeat
RegexError(re) ==
    \E i \in 1..Len(re) :
        /\ re[i] = "*"
        /\ (i = 1 \/ re[i - 1] \in {"^", "$", "*"})

RECURSIVE MatchHere(_, _)
MatchHere(re, text) ==
    IF re = <<>> THEN TRUE
    ELSE IF Len(re) >= 2 /\ re[2] = "*"
         THEN \E k \in 0..Len(text) :
                 /\ \A i \in 1..k : AtomMatches(re[1], text[i])
                 /\ MatchHere(Drop(re, 3), Drop(text, k + 1))
    ELSE IF re = <<"$">> THEN text = <<>>
    ELSE IF text # <<>> /\ AtomMatches(re[1], text[1])
         THEN MatchHere(Tail(re), Tail(text))
         ELSE FALSE

\* re.search(pattern, text, re.IGNORECASE) of a pattern that compiles
Search(re, text) ==
    IF re # <<>> /\ re[1] = "^"
    THEN MatchHere(Tail(re), text)
    ELSE \E i \in 1..(Len(text) + 1) : MatchHere(re, Drop(text, i))

(***************************************************************************)
(* NetClassifier (src/src/core/net_classifier.py).                         *)
(* A rule config is a dict: a function whose domain holds the keys present. *)
(***************************************************************************)
\* dict.get(key, default)
Get(d, key, default) == IF key \in DOMAIN d THEN d[key] ELSE default

\* the priority of a rule config that has none
DefaultRulePriority == 100
\* the priority of the default classification
DefaultPriority == 999

\* a slip: keywords are compared case-sensitively
MatchesRule_CaseSensitive(net_name, rule_config) ==
    LET keywords == Get(rule_config, "keywords", <<>>)
        patterns == Get(rule_config, "patterns", <<>>)
        exact_matches == Get(rule_config, "exact_matches", <<>>)
    IN \/ \E i \in 1..Len(keywords) : Contains(net_name, keywords[i])
       \/ \E i \in 1..Len(patterns) :
             ~RegexError(patterns[i]) /\ Search(patterns[i], net_name)
       \/ \E i \in 1..Len(exact_matches) : Upper(net_name) = Upper(exact_matches[i])

\* a slip: the try encloses the pattern loop and what follows it, so the first
\* pattern that raises re.error ends the test of the rule
MatchesRule_AbortOnBadPattern(net_name, rule_config) ==
    LET keywords == Get(rule_config, "keywords", <<>>)
        patterns == Get(rule_config, "patterns", <<>>)
        exact_matches == Get(rule_config, "exact_matches", <<>>)
    IN \/ \E i \in 1..Len(keywords) : Contains(Upper(net_name), Upper(keywords[i]))
       \/ \E i \in 1..Len(patterns) :
             /\ \A j \in 1..i : ~RegexError(patterns[j])
             /\ Search(patterns[i], net_name)
       \/ /\ \A j \in 1..Len(patterns) : ~RegexError(patterns[j])
          /\ \E i \in 1..Len(exact_matches) : Upper(net_name) = Upper(exact_matches[i])

\* _matches_rule: the three loops, each returning True at its first hit; a
\* pattern that raises re.error is logged and the loop goes on
MatchesRule(net_name, rule_config) ==
    LET keywords == Get(rule_config, "keywords", <<>>)
        patterns == Get(rule_config, "patterns", <<>>)
        exact_matches == Get(rule_config, "exact_matches", <<>>)
    IN \/ \E i \in 1..Len(keywords) : Contains(Upper(net_name), Upper(keywords[i]))
       \/ \E i \in 1..Len(patterns) :
             ~RegexError(patterns[i]) /\ Search(patterns[i], net_name)
       \/ \E i \in 1..Len(exact_matches) : Upper(net_name) = Upper(exact_matches[i])

\* the classification a matching rule gives
RuleClassification(rule_name, rule_config) ==
    [category |-> Get(rule_config, "category", "Unknown"),
     signal_type |-> Get(rule_config, "signal_type", "Single-End"),
     rule_matched |-> rule_name,
     priority |-> Get(rule_config, "priority", DefaultRulePriority)]

\* a slip: the default classification takes the fall-back values of a rule
DefaultClassification_AsRule ==
    [category |-> "Unknown", signal_type |-> "Single-End",
     rule_matched |-> "default", priority |-> DefaultRulePriority]

\* the classification when no rule matches
DefaultClassification ==
    [category |-> "Other", signal_type |-> "Single-End",
     rule_matched |-> "default", priority |-> DefaultPriority]

\* the loop of _classify_single_net from rule i on
RECURSIVE ClassifyFrom(_, _, _)
ClassifyFrom(rules, i, net_name) ==
    IF i > Len(rules) THEN DefaultClassification
    ELSE IF MatchesRule(net_name, rules[i].config)
         THEN RuleClassification(rules[i].name, rules[i].config)
         ELSE ClassifyFrom(rules, i + 1, net_name)

\* a slip: among the matching rules the one of least priority value is taken
ClassifySingleNet_ByPriority(rules, net_name) ==
    LET hits == {i \in 1..Len(rules) : MatchesRule(net_name, rules[i].config)}
        prio(i) == Get(rules[i].config, "priority", DefaultRulePriority)
    IN IF hits = {} THEN DefaultClassification
       ELSE LET b == CHOOSE i \in hits :
                        \A j \in hits : prio(i) < prio(j) \/ (prio(i) = prio(j) /\ i <= j)
            IN RuleClassification(rules[b].name, rules[b].config)

\* _classify_single_net
ClassifySingleNet(rules, net_name) == ClassifyFrom(rules, 1, net_name)

\* classify: the dict of the classifications of the names given
Classify(rules, net_names) ==
    [n \in Range(net_names) |-> ClassifySingleNet(rules, n)]

\* no call of classify yet
NoClassify == [status |-> "none"]

\* a slip: classify keeps the rule that matched the last name at the front of
\* the mapping, to find it sooner the next time
RulesAfterClassify_MoveToFront(rules, net_names) ==
    IF net_names = <<>> THEN rules
    ELSE LET matched == ClassifySingleNet(rules, net_names[Len(net_names)]).rule_matched
         IN SelectSeq(rules, LAMBDA r : r.name = matched)
            \o SelectSeq(rules, LAMBDA r : r.name # matched)

\* classification_rules after classify: classify and _classify_single_net
\* read self.classification_rules and assign nothing to self
RulesAfterClassify(rules, net_names) == rules

\* add_custom_rule: NetClassificationError for a config without category or
\* signal_type; else the dict assignment, which replaces the config of a name
\* the mapping has and appends a new name at its end
custom_required_fields == <<"category", "signal_type">>

\* self.classification_rules[rule_name] = rule_config: the dict keeps the
\* position of a key it has
SetRule(rules, rule_name, rule_config) ==
    IF \E i \in 1..Len(rules) : rules[i].name = rule_name
    THEN [i \in 1..Len(rules) |->
             IF rules[i].name = rule_name
             THEN [name |-> rule_name, config |-> rule_config]
             ELSE rules[i]]
    ELSE Append(rules, [name |-> rule_name, config |-> rule_config])

\* a slip: the rule is stored before the required fields are looked for
AddCustomRule_StoredFirst(rules, rule_name, rule_config) ==
    LET missing == SelectSeq(custom_required_fields,
                             LAMBDA field : field \notin DOMAIN rule_config)
    IN IF missing # <<>>
       THEN [status |-> "raised", exc |-> "NetClassificationError",
             field |-> Head(missing),
             classification_rules |-> SetRule(rules, rule_name, rule_config)]
       ELSE [status |-> "returned",
             classification_rules |-> SetRule(rules, rule_name, rule_config)]

\* add_custom_rule: NetClassificationError for the first required field the
\* config lacks, the rules as they were; otherwise the rule stored
AddCustomRule(rules, rule_name, rule_config) ==
    LET missing == SelectSeq(custom_required_fields,
                             LAMBDA field : field \notin DOMAIN rule_config)
    IN IF missing # <<>>
       THEN [status |-> "raised", exc |-> "NetClassificationError",
             field |-> Head(missing), classification_rules |-> rules]
       ELSE [status |-> "returned",
             classification_rules |-> SetRule(rules, rule_name, rule_config)]

(***************************************************************************)
(* RuleEngine (src/src/core/rule_engine.py).                               *)
(* layout_rules is a dict: rule name -> rule config dict.                  *)
(***************************************************************************)
\* category_mappings of _find_applicable_rule
category_mappings ==
    [c \in {"Communication Interface", "High Speed Interface", "RF", "Power"} |->
        CASE c = "Communication Interface" -> "I2C"
          [] c = "High Speed Interface" -> "PCIe"
          [] c = "RF" -> "RF"
          [] c = "Power" -> "Power"]

\* the empty dict
EmptyDict == [k \in {} |-> k]

\* a slip: the category table is consulted before the signal type
FindApplicableRule_CategoryFirst(layout_rules, signal_type, category) ==
    IF category \in DOMAIN category_mappings
       /\ category_mappings[category] \in DOMAIN layout_rules
    THEN layout_rules[category_mappings[category]]
    ELSE IF signal_type \in DOMAIN layout_rules THEN layout_rules[signal_type]
         ELSE Get(layout_rules, "Default", EmptyDict)

\* a slip: the last step returns the empty dict without looking for "Default"
FindApplicableRule_NoDefault(layout_rules, signal_type, category) ==
    IF signal_type \in DOMAIN layout_rules THEN layout_rules[signal_type]
    ELSE IF category \in DOMAIN category_mappings
            /\ category_mappings[category] \in DOMAIN layout_rules
         THEN layout_rules[category_mappings[category]]
         ELSE EmptyDict

\* _find_applicable_rule
FindApplicableRule(layout_rules, signal_type, category) ==
    IF signal_type \in DOMAIN layout_rules THEN layout_rules[signal_type]
    ELSE IF category \in DOMAIN category_mappings
            /\ category_mappings[category] \in DOMAIN layout_rules
         THEN layout_rules[category_mappings[category]]
         ELSE Get(layout_rules, "Default", EmptyDict)

\* a slip: the priority is not carried over from the classification
ApplySingleRule_PriorityReset(layout_rules, net_name, classification) ==
    LET signal_type == Get(classification, "signal_type", "Single-End")
        category == Get(classification, "category", "Other")
        rule_config == FindApplicableRule(layout_rules, signal_type, category)
    IN [net_name |-> net_name,
        category |-> category,
        signal_type |-> signal_type,
        rule_matched |-> Get(classification, "rule_matched", "default"),
        impedance |-> Get(rule_config, "impedance", "50 Ohm"),
        description |-> Get(rule_config, "description", "General purpose signal"),
        width |-> Get(rule_config, "width", "TBD"),
        length_limit |-> Get(rule_config, "length_limit", "TBD"),
        spacing |-> Get(rule_config, "spacing", "TBD"),
        via_rules |-> Get(rule_config, "via_rules", "Standard"),
        layer_stack |-> Get(rule_config, "layer_stack", "Any"),
        shielding |-> Get(rule_config, "shielding", "Optional"),
        pin_assignment |-> "TBD",
        notes |-> Get(rule_config, "notes", ""),
        priority |-> DefaultPriority]

\* _apply_single_rule
ApplySingleRule(layout_rules, net_name, classification) ==
    LET signal_type == Get(classification, "signal_type", "Single-End")
        category == Get(classification, "category", "Other")
        rule_config == FindApplicableRule(layout_rules, signal_type, category)
    IN [net_name |-> net_name,
        category |-> category,
        signal_type |-> signal_type,
        rule_matched |-> Get(classification, "rule_matched", "default"),
        impedance |-> Get(rule_config, "impedance", "50 Ohm"),
        description |-> Get(rule_config, "description", "General purpose signal"),
        width |-> Get(rule_config, "width", "TBD"),
        length_limit |-> Get(rule_config, "length_limit", "TBD"),
        spacing |-> Get(rule_config, "spacing", "TBD"),
        via_rules |-> Get(rule_config, "via_rules", "Standard"),
        layer_stack |-> Get(rule_config, "layer_stack", "Any"),
        shielding |-> Get(rule_config, "shielding", "Optional"),
        pin_assignment |-> "TBD",
        notes |-> Get(rule_config, "notes", ""),
        priority |-> Get(classification, "priority", DefaultPriority)]

\* apply_rules, on the classified nets in the order of their dict: the layout
\* data as the list of its items
ApplyRules(layout_rules, classified_items) ==
    [i \in 1..Len(classified_items) |->
        [net_name |-> classified_items[i].net_name,
         info |-> ApplySingleRule(layout_rules, classified_items[i].net_name,
                                  classified_items[i].classification)]]

\* required_fields of validate_rule_config
rule_required_fields == <<"impedance", "description">>

\* validate_rule_config: every required field is a key of the rule config
ValidateRuleConfig(rule_config) ==
    \A i \in 1..Len(rule_required_fields) : rule_required_fields[i] \in DOMAIN rule_config

\* a slip: the rule is registered only when validate_rule_config accepts it
RuleEngineAddCustomRule_Validated(layout_rules, rule_type, rule_config) ==
    IF ValidateRuleConfig(rule_config)
    THEN [k \in DOMAIN layout_rules \cup {rule_type} |->
             IF k = rule_type THEN rule_config ELSE layout_rules[k]]
    ELSE layout_rules

\* RuleEngine.add_custom_rule: self.layout_rules[rule_type] = rule_config
RuleEngineAddCustomRule(layout_rules, rule_type, rule_config) ==
    [k \in DOMAIN layout_rules \cup {rule_type} |->
        IF k = rule_type THEN rule_config ELSE layout_rules[k]]

(***************************************************************************)
(* TemplateMapper (src/src/core/template_mapper.py), with the pandas       *)
(* operations it calls. A DataFrame is its column labels and its rows.     *)
(***************************************************************************)
\* desired_order of _reorder_columns
desired_order ==
    <<"Category", "Net Name", "Pin (MT7921)", "Description", "Impedance", "Type",
      "Width", "Length Limit (mil)", "Spacing", "Shielding", "Layer Stack", "Notes">>

\* the keys of row_data, in the order _convert_to_dataframe_format writes them
row_data_keys == desired_order \o <<"priority">>

\* row_data of one net
RowData(net_name, net_info) ==
    [col \in Range(row_data_keys) |->
        CASE col = "Category" -> Get(net_info, "category", "Other")
          [] col = "Net Name" -> net_name
          [] col = "Pin (MT7921)" -> Get(net_info, "pin_assignment", "TBD")
          [] col = "Description" -> Get(net_info, "description", "")
          [] col = "Impedance" -> Get(net_info, "impedance", "50 Ohm")
          [] col = "Type" -> Get(net_info, "signal_type", "Single-End")
          [] col = "Width" -> Get(net_info, "width", "TBD")
          [] col = "Length Limit (mil)" -> Get(net_info, "length_limit", "TBD")
          [] col = "Spacing" -> Get(net_info, "spacing", "TBD")
          [] col = "Shielding" -> Get(net_info, "shielding", "Optional")
          [] col = "Layer Stack" -> Get(net_info, "layer_stack", "Any")
          [] col = "Notes" -> Get(net_info, "notes", "")
          [] col = "priority" -> Get(net_info, "priority", DefaultPriority)]

\* _convert_to_dataframe_format: one row per item of layout_data, in its order
ConvertToDataframeFormat(layout_data) ==
    [i \in 1..Len(layout_data) |-> RowData(layout_data[i].net_name, layout_data[i].info)]

\* pd.DataFrame(list of dicts): the columns are the keys of the dicts; an empty
\* list gives a frame without columns
DataFrame(df_data) ==
    [columns |-> IF df_data = <<>> THEN <<>> ELSE row_data_keys,
     rows |-> df_data]

\* the order of two cells of a column: the priority column holds numbers,
\* ordered by size; a name column holds strings, ordered by code points
ValueLess(col, a, b) == IF col = "priority" THEN a < b ELSE StrLess(a, b)

\* row r comes strictly before row q under the sort keys
RECURSIVE RowLess(_, _, _)
RowLess(r, q, by) ==
    IF by = <<>> THEN FALSE
    ELSE IF ValueLess(by[1], r[by[1]], q[by[1]]) THEN TRUE
    ELSE IF ValueLess(by[1], q[by[1]], r[by[1]]) THEN FALSE
    ELSE RowLess(r, q, Tail(by))

\* insert a row after the rows not greater than it
RECURSIVE InsertRow(_, _, _)
InsertRow(sorted, r, by) ==
    IF sorted = <<>> THEN <<r>>
    ELSE IF RowLess(r, sorted[1], by) THEN <<r>> \o sorted
    ELSE <<sorted[1]>> \o InsertRow(Tail(sorted), r, by)

RECURSIVE SortRows(_, _)
SortRows(rows, by) ==
    IF rows = <<>> THEN <<>>
    ELSE InsertRow(SortRows(SubSeq(rows, 1, Len(rows) - 1), by), rows[Len(rows)], by)

\* DataFrame.sort_values(by): KeyError for the first key that is no column
\* label, else the rows in ascending order of the keys
SortValues(df, by) ==
    LET missing == {i \in 1..Len(by) : by[i] \notin Range(df.columns)} IN
    IF missing # {}
    THEN [status |-> "raised", exc |-> "KeyError",
          key |-> by[CHOOSE i \in missing : \A j \in missing : i <= j]]
    ELSE [status |-> "returned",
          df |-> [columns |-> df.columns, rows |-> SortRows(df.rows, by)]]

\* the sort keys map_to_template passes
sort_keys == <<"priority", "net_name">>

\* _reorder_columns: the columns of desired_order the frame has, in that order
ReorderColumns(df) ==
    LET available_cols == SelectSeq(desired_order, LAMBDA col : col \in Range(df.columns))
    IN [columns |-> available_cols,
        rows |-> [i \in 1..Len(df.rows) |->
                     [col \in Range(available_cols) |-> df.rows[i][col]]]]

\* _save_to_excel: the styled write, and when it raises the plain
\* df.to_excel, whose exception is not caught here
SaveToExcel(df, output_path, disk) ==
    IF disk.styled_write_ok
    THEN [status |-> "returned",
          file |-> [path |-> output_path, styled |-> TRUE,
                    columns |-> df.columns, rows |-> df.rows]]
    ELSE IF disk.plain_write_ok
    THEN [status |-> "returned",
          file |-> [path |-> output_path, styled |-> FALSE,
                    columns |-> df.columns, rows |-> df.rows]]
    ELSE [status |-> "raised", exc |-> "OSError"]

\* no file
NoOutput == [path |-> "None"]

\* map_to_template: every exception of the body leaves as TemplateMappingError
MapToTemplate(layout_data, output_path, disk) ==
    LET df_data == ConvertToDataframeFormat(layout_data)
        sorted == SortValues(DataFrame(df_data), sort_keys)
    IN IF sorted.status = "raised"
       THEN [status |-> "raised", exc |-> "TemplateMappingError",
             cause |-> sorted.exc, file |-> NoOutput]
       ELSE LET df == ReorderColumns(sorted.df)
                path == IF output_path = "None" THEN "layout_guide_output.xlsx"
                        ELSE output_path
                saved == SaveToExcel(df, path, disk)
            IN IF saved.status = "raised"
               THEN [status |-> "raised", exc |-> "TemplateMappingError",
                     cause |-> saved.exc, file |-> NoOutput]
               ELSE [status |-> "returned", value |-> path, file |-> saved.file]

\* no call of map_to_template yet
NoMap == [status |-> "none", file |-> NoOutput]

\* the columns of _get_default_config of TemplateMapper, as the items of the
\* dict: internal name, display header
default_column_mapping ==
    << <<"Category", "Category">>, <<"Net Name", "Net Name">>,
       <<"Pin", "Pin (MT7921)">>, <<"Description", "Description">>,
       <<"Impedance", "Impedance">>, <<"Type", "Type">>, <<"Width", "Width">>,
       <<"Length Limit", "Length Limit (mil)">>, <<"Spacing", "Spacing">>,
       <<"Shielding", "Shielding">>, <<"Layer Stack", "Layer Stack">>,
       <<"Notes", "Notes">> >>

\* TemplateMapper.__init__: column_mapping, the columns of the template_mapping
\* section of the configuration given, or of the default configuration when
\* it is None or empty
TemplateMapperInit(config) ==
    IF DOMAIN config = {} THEN default_column_mapping
    ELSE Get(Get(config, "template_mapping", EmptyDict), "columns", <<>>)

\* no call of _reorder_columns yet
NoReorder == [status |-> "none"]

\* pd.read_excel(template_path): the frame of the sheet, or the exception of a
\* file that is no workbook
ReadExcel(template) ==
    IF template.readable
    THEN [status |-> "returned", columns |-> template.columns]
    ELSE [status |-> "raised", exc |-> "ValueError"]

required_columns == <<"Category", "Net Name", "Description">>

\* a slip: the handler is left out, so what read_excel raises leaves the method
ValidateTemplate_ReadErrorEscapes(template) ==
    IF ~template.exists THEN [status |-> "returned", value |-> FALSE]
    ELSE LET df == ReadExcel(template) IN
         IF df.status = "raised" THEN [status |-> "raised", exc |-> df.exc]
         ELSE [status |-> "returned",
               value |-> SelectSeq(required_columns,
                                   LAMBDA col : col \notin df.columns) = <<>>]

\* validate_template: False for a path that does not exist, for required
\* columns that are missing and for every exception of the body
ValidateTemplate(template) ==
    IF ~template.exists THEN [status |-> "returned", value |-> FALSE]
    ELSE LET df == ReadExcel(template) IN
         IF df.status = "raised" THEN [status |-> "returned", value |-> FALSE]
         ELSE LET missing_columns ==
                      SelectSeq(required_columns, LAMBDA col : col \notin df.columns)
              IN [status |-> "returned", value |-> missing_columns = <<>>]

\* no call of validate_template yet
NoValidate == [status |-> "none"]

(***************************************************************************)
(* ConfigManager (src/src/config/config_manager.py).                       *)
(* A section of rules is the list of the items of its dict, in dict order.  *)
(***************************************************************************)
\* the first missing field of the first rule that misses one, or "ok"
RECURSIVE ValidateRules(_, _, _)
ValidateRules(rules, required_fields, kind) ==
    IF rules = <<>> THEN [status |-> "ok"]
    ELSE LET missing == SelectSeq(required_fields,
                                  LAMBDA f : f \notin DOMAIN rules[1].config)
         IN IF missing # <<>>
            THEN [status |-> "raised", exc |-> "ConfigurationError", kind |-> kind,
                  rule |-> rules[1].name, field |-> missing[1]]
            ELSE ValidateRules(Tail(rules), required_fields, kind)

\* _validate_classification_rules
ValidateClassificationRules(rules) ==
    ValidateRules(rules, <<"category", "signal_type", "priority">>, "classification rule")

\* a slip: the layout rules are not looked at
ValidateLayoutRules_Skipped(rules) == [status |-> "ok"]

\* _validate_layout_rules
ValidateLayoutRules(rules) ==
    ValidateRules(rules, <<"impedance", "description">>, "layout rule")

\* _validate_template_mapping
ValidateTemplateMapping(mapping) ==
    IF "columns" \notin DOMAIN mapping
    THEN [status |-> "raised", exc |-> "ConfigurationError", kind |-> "template_mapping",
          rule |-> "", field |-> "columns"]
    ELSE [status |-> "ok"]

required_sections == <<"net_classification_rules", "layout_rules", "template_mapping">>

\* _validate_config
ValidateConfig(config) ==
    LET absent == SelectSeq(required_sections, LAMBDA sec : sec \notin DOMAIN config) IN
    IF absent # <<>>
    THEN [status |-> "raised", exc |-> "ConfigurationError", kind |-> "section",
          rule |-> "", field |-> absent[1]]
    ELSE LET c == ValidateClassificationRules(config["net_classification_rules"]) IN
         IF c.status # "ok" THEN c
         ELSE LET l == ValidateLayoutRules(config["layout_rules"]) IN
              IF l.status # "ok" THEN l
              ELSE ValidateTemplateMapping(config["template_mapping"])

\* load_config: the user file when a path is given and the file exists, else
\* the default file; any failure to load or validate is a ConfigurationError
LoadConfig(config_path, default_file) ==
    LET file == IF config_path.given /\ config_path.exists THEN config_path
                ELSE default_file
    IN IF ~file.exists \/ ~file.loads
       THEN [status |-> "raised", exc |-> "ConfigurationError", kind |-> "file",
             rule |-> "", field |-> ""]
       ELSE LET v == ValidateConfig(file.data) IN
            IF v.status # "ok" THEN v
            ELSE [status |-> "returned", value |-> file.data]

(***************************************************************************)
(* Construction of the components from a configuration.                    *)
(***************************************************************************)
\* the attributes of a dict
DictAttributes ==
    {"clear", "copy", "fromkeys", "get", "items", "keys", "pop", "popitem",
     "setdefault", "update", "values"}

\* the attributes of a ConfigManager instance (config_manager.py, the class)
ConfigManagerAttributes ==
    {"config_path", "config_data", "default_config_path", "load_config", "_load_file",
     "_validate_config", "_validate_classification_rules", "_validate_layout_rules",
     "_validate_template_mapping", "get_section", "get_value", "update_config",
     "_deep_update", "save_config", "create_user_config_template",
     "list_available_rules", "export_config_summary"}

\* the objects a caller passes as config_manager
PyNone == [type |-> "NoneType"]
PyDict(data) == [type |-> "dict", data |-> data]
PyList(items) == [type |-> "list", items |-> items]
NewConfigManager == [type |-> "ConfigManager"]
\* an object that answers get_classification_rules() with a rule mapping
RulesProvider(rules) == [type |-> "provider", rules |-> rules]

\* the methods of a list
ListAttributes ==
    {"append", "clear", "copy", "count", "extend", "index", "insert", "pop", "remove",
     "reverse", "sort"}

AttributesOf(obj) ==
    CASE obj.type = "dict" -> DictAttributes
      [] obj.type = "list" -> ListAttributes
      [] obj.type = "ConfigManager" -> ConfigManagerAttributes
      [] obj.type = "provider" -> {"get_classification_rules"}
      [] obj.type = "NoneType" -> {}

\* bool(obj)
Truthy(obj) ==
    CASE obj.type = "NoneType" -> FALSE
      [] obj.type = "dict" -> DOMAIN obj.data # {}
      [] obj.type = "list" -> obj.items # <<>>
      [] OTHER -> TRUE

\* NetClassifier.__init__: the rules are asked of the object given, or of a
\* new ConfigManager when it is falsy
NetClassifierInit(config_manager) ==
    LET cm == IF Truthy(config_manager) THEN config_manager ELSE NewConfigManager IN
    IF "get_classification_rules" \in AttributesOf(cm)
    THEN [status |-> "returned", classification_rules |-> cm.rules]
    ELSE [status |-> "raised", exc |-> "AttributeError"]

\* the dict of a list of items
AsDict(items) ==
    [n \in {items[i].name : i \in 1..Len(items)} |->
        items[CHOOSE i \in 1..Len(items) : items[i].name = n].config]

\* _get_default_config of RuleEngine: its layout_rules. The descriptions, long
\* texts in the source, are named here by their rule
default_layout_rules ==
    <<[name |-> "I2C",
       config |-> [impedance |-> "50 Ohm", description |-> "I2C/I3C description",
                   width |-> "5 mil", length_limit |-> "6 inch",
                   spacing |-> "3W spacing", shielding |-> "Ground guard preferred",
                   layer_stack |-> "Any signal layer",
                   notes |-> "Avoid sharing bus between AP and SCP devices"]],
      [name |-> "SPI",
       config |-> [impedance |-> "50 Ohm", description |-> "SPI description",
                   width |-> "5 mil", length_limit |-> "6 inch",
                   spacing |-> "3W spacing", shielding |-> "Ground shielding required",
                   layer_stack |-> "Same layer for all signals",
                   notes |-> "Keep away from switching noise sources"]],
      [name |-> "RF",
       config |-> [impedance |-> "50 Ohm", description |-> "RF description",
                   width |-> "Calculated for 50 Ohm", length_limit |-> "Minimize length",
                   spacing |-> "5W spacing minimum",
                   shielding |-> "Ground surrounding required",
                   layer_stack |-> "Dedicated RF layers",
                   notes |-> "Minimize vias and sharp bends"]],
      [name |-> "PCIe",
       config |-> [impedance |-> "100 Ohm differential", description |-> "PCIe description",
                   width |-> "Calculated for 100 Ohm diff",
                   length_limit |-> "Length matching +-0.1mm",
                   spacing |-> "Differential pair rules",
                   shielding |-> "Ground plane required",
                   layer_stack |-> "Stripline preferred",
                   notes |-> "Maintain differential impedance and length matching"]],
      [name |-> "Power",
       config |-> [impedance |-> "N/A", description |-> "Power description",
                   width |-> "Current carrying capacity",
                   length_limit |-> "Minimize resistance",
                   spacing |-> "Voltage clearance", shielding |-> "Not required",
                   layer_stack |-> "Power/Ground planes",
                   notes |-> "Consider current density and voltage drop"]],
      [name |-> "Default",
       config |-> [impedance |-> "50 Ohm", description |-> "Default description",
                   width |-> "5 mil", length_limit |-> "No specific limit",
                   spacing |-> "3W spacing", shielding |-> "Optional",
                   layer_stack |-> "Any signal layer",
                   notes |-> "Standard digital signal routing"]]>>

\* RuleEngine.__init__: the layout_rules of the configuration given, or of the
\* default configuration when it is None or empty
RuleEngineInit(config) ==
    IF DOMAIN config = {} THEN AsDict(default_layout_rules)
    ELSE AsDict(Get(config, "layout_rules", <<>>))

(***************************************************************************)
(* LayoutRuleModel (src/src/models/layout_rule_model.py) and               *)
(* LayoutRuleController (src/src/controllers/layout_rule_controller.py).   *)
(***************************************************************************)
\* LayoutRuleModel(): the fields __init__ gives a new rule; the optional
\* technical parameters, all None, are left out
NewLayoutRuleModel ==
    [name |-> "", impedance |-> "50 Ohm", description |-> "", width |-> "5 mil",
     length_limit |-> "No specific limit", spacing |-> "3W spacing",
     via_rules |-> "Standard via rules", layer_stack |-> "Any signal layer",
     shielding |-> "Optional", notes |-> "", enabled |-> TRUE]

\* load_from_dict(name, data): the fields of data, the defaults where data has
\* none; data.get of an object that is no dict raises AttributeError
LayoutRuleLoadFromDict(name, data) ==
    IF "get" \notin AttributesOf(data)
    THEN [status |-> "raised", exc |-> "AttributeError",
          message |-> "object has no attribute 'get'"]
    ELSE [status |-> "returned",
          rule |-> [f \in DOMAIN NewLayoutRuleModel |->
                       IF f = "name" THEN name
                       ELSE Get(data.data, f, NewLayoutRuleModel[f])]]

\* a slip: the handler returns False as that of SignalRuleController does
\* instead of logging, emitting and raising again
LayoutAddRule_Swallowed(layout_rules, rule_name, rule_data) ==
    IF rule_name \in DOMAIN layout_rules
    THEN [status |-> "returned", value |-> FALSE, layout_rules |-> layout_rules,
          signals |-> <<>>, records |-> <<>>]
    ELSE LET loaded == IF Truthy(rule_data)
                       THEN LayoutRuleLoadFromDict(rule_name, rule_data)
                       ELSE [status |-> "returned",
                             rule |-> [NewLayoutRuleModel EXCEPT !.name = rule_name]]
         IN IF loaded.status = "raised"
            THEN [status |-> "returned", value |-> FALSE, layout_rules |-> layout_rules,
                  signals |-> <<>>, records |-> <<>>]
            ELSE [status |-> "returned", value |-> TRUE,
                  layout_rules |->
                      [k \in DOMAIN layout_rules \cup {rule_name} |->
                          IF k = rule_name THEN loaded.rule ELSE layout_rules[k]],
                  signals |-> <<[signal |-> "ruleAdded", arg |-> rule_name]>>,
                  records |-> <<>>]

\* LayoutRuleController.add_rule: what it returns or raises, layout_rules
\* after it, the signals it emits and the records it logs
LayoutAddRule(layout_rules, rule_name, rule_data) ==
    IF rule_name \in DOMAIN layout_rules
    THEN [status |-> "returned", value |-> FALSE, layout_rules |-> layout_rules,
          signals |-> <<>>, records |-> <<>>]
    ELSE LET loaded == IF Truthy(rule_data)
                       THEN LayoutRuleLoadFromDict(rule_name, rule_data)
                       ELSE [status |-> "returned",
                             rule |-> [NewLayoutRuleModel EXCEPT !.name = rule_name]]
         IN IF loaded.status = "raised"
            THEN [status |-> "raised", exc |-> loaded.exc, message |-> loaded.message,
                  layout_rules |-> layout_rules,
                  signals |-> <<[signal |-> "errorOccurred", arg |-> loaded.message]>>,
                  records |-> <<[level |-> "ERROR", rule_name |-> rule_name,
                                 message |-> loaded.message, exc_info |-> TRUE]>>]
            ELSE [status |-> "returned", value |-> TRUE,
                  layout_rules |->
                      [k \in DOMAIN layout_rules \cup {rule_name} |->
                          IF k = rule_name THEN loaded.rule ELSE layout_rules[k]],
                  signals |-> <<[signal |-> "ruleAdded", arg |-> rule_name]>>,
                  records |-> <<>>]

\* LayoutRuleController.remove_rule
LayoutRemoveRule(layout_rules, rule_name) ==
    IF rule_name \in DOMAIN layout_rules
    THEN [status |-> "returned", value |-> TRUE,
          layout_rules |-> [k \in DOMAIN layout_rules \ {rule_name} |-> layout_rules[k]],
          signals |-> <<[signal |-> "ruleRemoved", arg |-> rule_name]>>]
    ELSE [status |-> "returned", value |-> FALSE, layout_rules |-> layout_rules,
          signals |-> <<>>]

(***************************************************************************)
(* SignalRuleModel, ConfigurationModel and ConfigurationController         *)
(* (src/src/models, src/src/controllers). A dict of rule models is the     *)
(* list of its items, a name and a rule each.                              *)
(***************************************************************************)
\* SignalRuleModel(): the fields __init__ gives a new rule
NewSignalRuleModel ==
    [name |-> "", keywords |-> <<>>, patterns |-> <<>>, exact_matches |-> <<>>,
     category |-> "", signal_type |-> "", priority |-> 10, description |-> "",
     enabled |-> TRUE]

\* SignalRuleModel.load_from_dict(name, data)
SignalRuleLoadFromDict(name, data) ==
    [f \in DOMAIN NewSignalRuleModel |->
        IF f = "name" THEN name ELSE Get(data, f, NewSignalRuleModel[f])]

\* SignalRuleModel.to_dict: every field but the name
SignalRuleToDict(rule) == [f \in DOMAIN NewSignalRuleModel \ {"name"} |-> rule[f]]

\* LayoutRuleModel.to_dict: every field but the name
LayoutRuleToDict(rule) == [f \in DOMAIN NewLayoutRuleModel \ {"name"} |-> rule[f]]

\* rules[rule_name] = rule on a dict of rule models
PutRule(rules, rule_name, rule) ==
    IF \E i \in 1..Len(rules) : rules[i].name = rule_name
    THEN [i \in 1..Len(rules) |->
             IF rules[i].name = rule_name THEN [name |-> rule_name, rule |-> rule]
             ELSE rules[i]]
    ELSE Append(rules, [name |-> rule_name, rule |-> rule])

\* del rules[rule_name]
DelRule(rules, rule_name) == SelectSeq(rules, LAMBDA item : item.name # rule_name)

HasRule(rules, rule_name) == \E i \in 1..Len(rules) : rules[i].name = rule_name

\* rules[rule_name] of a dict that has the key
RuleNamed(rules, rule_name) ==
    rules[CHOOSE i \in 1..Len(rules) : rules[i].name = rule_name].rule

\* a slip: the try encloses the pattern loop, so the first pattern that raises
\* re.error ends the loop and the rule does not match
MatchesNet_AbortOnBadPattern(rule, net_name) ==
    IF ~rule.enabled THEN FALSE
    ELSE LET net_name_upper == Upper(net_name)
         IN \/ \E i \in 1..Len(rule.exact_matches) :
                  net_name_upper = Upper(rule.exact_matches[i])
            \/ \E i \in 1..Len(rule.keywords) :
                  Contains(net_name_upper, Upper(rule.keywords[i]))
            \/ \E i \in 1..Len(rule.patterns) :
                  /\ \A j \in 1..i : ~RegexError(rule.patterns[j])
                  /\ Search(rule.patterns[i], net_name)

\* SignalRuleModel.matches_net: False for a disabled rule; then the exact
\* matches, the keywords and the patterns, each loop returning True at its
\* first hit; a pattern that raises re.error is skipped
MatchesNet(rule, net_name) ==
    IF ~rule.enabled THEN FALSE
    ELSE LET net_name_upper == Upper(net_name)
         IN \/ \E i \in 1..Len(rule.exact_matches) :
                  net_name_upper = Upper(rule.exact_matches[i])
            \/ \E i \in 1..Len(rule.keywords) :
                  Contains(net_name_upper, Upper(rule.keywords[i]))
            \/ \E i \in 1..Len(rule.patterns) :
                  /\ ~RegexError(rule.patterns[i])
                  /\ Search(rule.patterns[i], net_name)

\* SignalRuleController.test_rule_against_nets: [] for a name that is no
\* rule; else the nets of net_list the rule matches, in their order, emitted
\* with testCompleted and returned
TestRuleAgainstNets(signal_rules, rule_name, net_list) ==
    IF ~HasRule(signal_rules, rule_name)
    THEN [status |-> "returned", matched_nets |-> <<>>, signals |-> <<>>]
    ELSE LET rule == RuleNamed(signal_rules, rule_name)
             Matched(net) == MatchesNet(rule, net)
             matched_nets == SelectSeq(net_list, Matched)
         IN [status |-> "returned", matched_nets |-> matched_nets,
             signals |-> <<[signal |-> "testCompleted", rule_name |-> rule_name,
                            matched_nets |-> matched_nets]>>]

\* _build_config_data: the rule sections of the YAML data, each rule by its
\* to_dict. The other sections are not changed by the operations modelled
\* and are left out
BuildConfigData(signal_rules, layout_rules) ==
    [net_classification_rules |->
        [i \in 1..Len(signal_rules) |->
            [name |-> signal_rules[i].name,
             config |-> SignalRuleToDict(signal_rules[i].rule)]],
     layout_rules |->
        [i \in 1..Len(layout_rules) |->
            [name |-> layout_rules[i].name,
             config |-> LayoutRuleToDict(layout_rules[i].rule)]]]

\* _parse_config_data: both dicts of rule models rebuilt from the data
ParseConfigData(config_data) ==
    LET signal_rules_data == Get(config_data, "net_classification_rules", <<>>)
        layout_rules_data == Get(config_data, "layout_rules", <<>>)
    IN [signal_rules |->
            [i \in 1..Len(signal_rules_data) |->
                [name |-> signal_rules_data[i].name,
                 rule |-> SignalRuleLoadFromDict(signal_rules_data[i].name,
                                                 signal_rules_data[i].config)]],
        layout_rules |->
            [i \in 1..Len(layout_rules_data) |->
                [name |-> layout_rules_data[i].name,
                 rule |-> LayoutRuleLoadFromDict(layout_rules_data[i].name,
                                                 PyDict(layout_rules_data[i].config)).rule]]]

\* SignalRuleModel.validate: the errors of a rule
SignalRuleErrors(rule) ==
    (IF rule.name = "" THEN {"Rule name cannot be empty"} ELSE {})
    \cup (IF rule.keywords = <<>> /\ rule.patterns = <<>> /\ rule.exact_matches = <<>>
          THEN {"At least one keyword, pattern, or exact match must be specified"}
          ELSE {})
    \cup (IF rule.category = "" THEN {"Category cannot be empty"} ELSE {})
    \cup (IF rule.signal_type = "" THEN {"Signal type cannot be empty"} ELSE {})
    \cup (IF rule.priority < 0 \/ rule.priority > 100
          THEN {"Priority must be between 0 and 100"} ELSE {})
    \cup (IF \E i \in 1..Len(rule.patterns) : RegexError(rule.patterns[i])
          THEN {"Invalid pattern"} ELSE {})

\* the impedance texts of the rules modelled that hold the unit validate
\* looks for, 'ohm' in any case
ImpedancesWithUnit ==
    {"50 Ohm", "75 Ohm", "50 Ohm I2C", "50 Ohm RF", "50 Ohm default",
     "100 Ohm differential"}

\* LayoutRuleModel.validate: the errors of a rule; the numerical parameters
\* are None
LayoutRuleErrors(rule) ==
    (IF rule.name = "" THEN {"Rule name cannot be empty"} ELSE {})
    \cup (IF rule.impedance = "" THEN {"Impedance cannot be empty"} ELSE {})
    \cup (IF rule.width = "" THEN {"Width cannot be empty"} ELSE {})
    \cup (IF rule.impedance # "" /\ rule.impedance \notin ImpedancesWithUnit
          THEN {"Impedance should include 'Ohm' unit"} ELSE {})

\* ConfigurationModel.validate_config: the errors of every rule, by rule; the
\* template mapping is the default one, which has none
ModelValidateConfig(signal_rules, layout_rules) ==
    UNION { { <<"Signal rule", signal_rules[i].name, e>> :
                 e \in SignalRuleErrors(signal_rules[i].rule) }
            : i \in 1..Len(signal_rules) }
    \cup UNION { { <<"Layout rule", layout_rules[i].name, e>> :
                      e \in LayoutRuleErrors(layout_rules[i].rule) }
                 : i \in 1..Len(layout_rules) }

max_undo_levels == 50

\* _save_state_for_undo: the state pushed, the oldest one dropped beyond
\* max_undo_levels
SaveStateForUndo(stack, current_state) ==
    LET pushed == Append(stack, current_state) IN
    IF Len(pushed) > max_undo_levels THEN Tail(pushed) ELSE pushed

(***************************************************************************)
(* TemplateMappingModel (src/src/models/template_mapping_model.py). The    *)
(* dict columns is the list of its items, an internal name and a display   *)
(* name each.                                                              *)
(***************************************************************************)
\* columns of _set_defaults
default_columns ==
    <<[name |-> "Category", display |-> "Category"],
      [name |-> "Net_Name", display |-> "Net Name"],
      [name |-> "Pin", display |-> "Pin (MT7921)"],
      [name |-> "Description", display |-> "Description"],
      [name |-> "Impedance", display |-> "Impedance"],
      [name |-> "Type", display |-> "Type"],
      [name |-> "Width", display |-> "Width"],
      [name |-> "Length_Limit", display |-> "Length Limit (mil)"],
      [name |-> "Spacing", display |-> "Spacing"],
      [name |-> "Shielding", display |-> "Shielding"],
      [name |-> "Layer_Stack", display |-> "Layer Stack"],
      [name |-> "Notes", display |-> "Notes"]>>

\* list(columns.keys())
ColumnKeys(columns) == [i \in 1..Len(columns) |-> columns[i].name]

\* list.index(x) of a list that holds x
ListIndex(list, x) == CHOOSE i \in 1..Len(list) : list[i] = x /\ \A j \in 1..(i - 1) : list[j] # x

\* list.remove(x): the first x leaves the list
ListRemove(list, x) ==
    LET at == ListIndex(list, x) IN
    SubSeq(list, 1, at - 1) \o SubSeq(list, at + 1, Len(list))

\* the list with the elements at i and j exchanged
ListSwap(list, i, j) ==
    [k \in 1..Len(list) |-> IF k = i THEN list[j] ELSE IF k = j THEN list[i] ELSE list[k]]

\* columns[internal_name] = display_name
PutColumn(columns, internal_name, display_name) ==
    IF internal_name \in Range(ColumnKeys(columns))
    THEN [i \in 1..Len(columns) |->
             IF columns[i].name = internal_name
             THEN [name |-> internal_name, display |-> display_name]
             ELSE columns[i]]
    ELSE Append(columns, [name |-> internal_name, display |-> display_name])

\* update_column_order: the names of new_order that are columns, as often as
\* new_order has them, then the columns it does not name
ValidOrder(columns, new_order) ==
    LET valid_order == SelectSeq(new_order, LAMBDA col : col \in Range(ColumnKeys(columns)))
    IN valid_order \o SelectSeq(ColumnKeys(columns), LAMBDA col : col \notin Range(valid_order))

(***************************************************************************)
(* process_netlist_to_excel (src/src/main.py).                             *)
(***************************************************************************)
\* the classified nets as the items of the dict classify returns: one per
\* name, in the order of first insertion
RECURSIVE ClassifiedItems(_, _, _)
ClassifiedItems(rules, net_names, seen) ==
    IF net_names = <<>> THEN <<>>
    ELSE IF Head(net_names) \in seen THEN ClassifiedItems(rules, Tail(net_names), seen)
    ELSE <<[net_name |-> Head(net_names),
            classification |-> ClassifySingleNet(rules, Head(net_names))]>>
         \o ClassifiedItems(rules, Tail(net_names), seen \cup {Head(net_names)})

\* a slip: a netlist that cannot be parsed is logged and taken as one without
\* nets, and the run goes on
ProcessNetlistToExcel_ParseErrorSwallowed(run) ==
    LET loaded == LoadConfig(run.config_path, run.default_config) IN
    IF loaded.status = "raised"
    THEN [status |-> "raised", exc |-> loaded.exc, stages |-> <<"load_config">>,
          net_names |-> <<>>, file |-> NoOutput]
    ELSE
    LET config == loaded.value
        parsed == ParseFile(run.netlist)
    IN
    LET net_names == IF parsed.status = "raised" THEN <<>> ELSE parsed.value
        classifier == NetClassifierInit(PyDict(config))
    IN
    IF classifier.status = "raised"
    THEN [status |-> "raised", exc |-> classifier.exc,
          stages |-> <<"load_config", "parse", "classify">>,
          net_names |-> net_names, file |-> NoOutput]
    ELSE
    LET classified_nets == ClassifiedItems(classifier.classification_rules, net_names, {})
        layout_data == ApplyRules(RuleEngineInit(config), classified_nets)
        mapped == MapToTemplate(layout_data, run.output_path, run.disk)
    IN
    IF mapped.status = "raised"
    THEN [status |-> "raised", exc |-> mapped.exc,
          stages |-> <<"load_config", "parse", "classify", "apply_rules", "map_to_template">>,
          net_names |-> net_names, file |-> NoOutput]
    ELSE [status |-> "returned", value |-> mapped.value,
          stages |-> <<"load_config", "parse", "classify", "apply_rules", "map_to_template">>,
          net_names |-> net_names, file |-> mapped.file]

\* the run: the stages entered, and how it ended
ProcessNetlistToExcel(run) ==
    LET loaded == LoadConfig(run.config_path, run.default_config) IN
    IF loaded.status = "raised"
    THEN [status |-> "raised", exc |-> loaded.exc, stages |-> <<"load_config">>,
          net_names |-> <<>>, file |-> NoOutput]
    ELSE
    LET config == loaded.value
        parsed == ParseFile(run.netlist)
    IN
    IF parsed.status = "raised"
    THEN [status |-> "raised", exc |-> parsed.exc, stages |-> <<"load_config", "parse">>,
          net_names |-> <<>>, file |-> NoOutput]
    ELSE
    LET net_names == parsed.value
        classifier == NetClassifierInit(PyDict(config))
    IN
    IF classifier.status = "raised"
    THEN [status |-> "raised", exc |-> classifier.exc,
          stages |-> <<"load_config", "parse", "classify">>,
          net_names |-> net_names, file |-> NoOutput]
    ELSE
    LET classified_nets == ClassifiedItems(classifier.classification_rules, net_names, {})
        layout_data == ApplyRules(RuleEngineInit(config), classified_nets)
        mapped == MapToTemplate(layout_data, run.output_path, run.disk)
    IN
    IF mapped.status = "raised"
    THEN [status |-> "raised", exc |-> mapped.exc,
          stages |-> <<"load_config", "parse", "classify", "apply_rules", "map_to_template">>,
          net_names |-> net_names, file |-> NoOutput]
    ELSE [status |-> "returned", value |-> mapped.value,
          stages |-> <<"load_config", "parse", "classify", "apply_rules", "map_to_template">>,
          net_names |-> net_names, file |-> mapped.file]

\* no run yet
NoRun == [status |-> "none", file |-> NoOutput]

(***************************************************************************)
(* Netlist files of the parser specification.                              *)
(***************************************************************************)
\* how a line starts: an index, an indented index and a tab, the two comment
\* markers, a word
LineHeads ==
    { <<"1", " ">>, <<" ", "2", "\t">>, <<"*", "1", " ">>, <<"#", " ", "3", " ">>,
      <<"N", " ">> }

\* how it goes on: nothing, names, and tokens of the three excluded shapes
LineTails ==
    { <<>>,
      <<"B">>,
      <<"A", " ", "R", "1">>,
      <<"R", "1", " ", "A">>,
      <<"r", "2", "0">>,
      <<"1", "2", " ", "a", "1", "b">>,
      <<"1", "o", "H", "m">>,
      <<"2", "F", " ", "3", "h", " ", "B">>,
      <<"a", "1", "b", " ", "7">> }

NetlistLines == {h \o t : h \in LineHeads, t \in LineTails}

RECURSIVE JoinLines(_)
JoinLines(lines) ==
    IF lines = <<>> THEN <<>>
    ELSE IF Len(lines) = 1 THEN lines[1]
    ELSE lines[1] \o <<"\n">> \o JoinLines(Tail(lines))

LineSeqs == UNION {[1..n -> NetlistLines] : n \in 0..MaxLines}

NetlistContents == {JoinLines(ls) : ls \in LineSeqs}

ReadableFile(content) ==
    [exists |-> TRUE, readable |-> TRUE, decodable |-> TRUE, content |-> content]

NetlistFiles ==
    {ReadableFile(c) : c \in NetlistContents}
    \cup { [exists |-> FALSE, readable |-> FALSE, decodable |-> FALSE, content |-> <<>>],
           [exists |-> TRUE, readable |-> FALSE, decodable |-> FALSE, content |-> <<>>],
           [exists |-> TRUE, readable |-> TRUE, decodable |-> FALSE, content |-> <<>>] }

(***************************************************************************)
(* Rule mappings and net names of the classifier specification.            *)
(***************************************************************************)
\* a rule as the test configuration writes it: no priority, no enabled flag
RuleI2C ==
    [name |-> "I2C",
     config |-> [keywords |-> <<<<"S", "C", "L">>>>,
                 patterns |-> <<<<".", "*", "I", "2", "C", ".", "*">>>>,
                 signal_type |-> "I2C",
                 category |-> "Communication Interface"]]

RuleRF ==
    [name |-> "RF",
     config |-> [keywords |-> <<<<"r", "f">>>>,
                 patterns |-> <<<<"^", "A", "N", "T">>>>,
                 exact_matches |-> <<>>,
                 category |-> "RF",
                 signal_type |-> "Single-End",
                 priority |-> 1,
                 enabled |-> TRUE]]

\* exact matches only
RuleClock ==
    [name |-> "Clock",
     config |-> [keywords |-> <<>>,
                 patterns |-> <<>>,
                 exact_matches |-> <<<<"s", "c", "l">>, <<"c", "l", "k">>>>,
                 category |-> "Clock",
                 signal_type |-> "Clock",
                 priority |-> 5,
                 enabled |-> TRUE]]

\* patterns only, the first of them not a regular expression
RuleBus ==
    [name |-> "Bus",
     config |-> [keywords |-> <<>>,
                 patterns |-> <<<<"*", "X">>, <<"^", "S", ".", "*", "L", "$">>>>,
                 exact_matches |-> <<>>,
                 category |-> "High Speed Interface",
                 signal_type |-> "PCIe",
                 priority |-> 3,
                 enabled |-> TRUE]]

\* a rule switched off in the rule editor
RuleLegacy ==
    [name |-> "Legacy",
     config |-> [keywords |-> <<<<"R", "F">>>>,
                 patterns |-> <<>>,
                 exact_matches |-> <<>>,
                 category |-> "Legacy",
                 signal_type |-> "Single-End",
                 priority |-> 7,
                 enabled |-> FALSE]]

\* a rule with nothing but an exact match
RuleBare ==
    [name |-> "Bare", config |-> [exact_matches |-> <<<<"x">>>>]]

RulePool == {RuleI2C, RuleRF, RuleClock, RuleBus, RuleLegacy, RuleBare}

\* the rule mappings: up to MaxRules rules of the pool, each name once, in any order
RuleMappings ==
    UNION { {m \in [1..n -> RulePool] : \A i, j \in 1..n : i # j => m[i] # m[j]}
            : n \in 0..MaxRules }

NetNames == {<<"s", "c", "l">>, <<"I", "2", "C">>, <<"R", "F">>, <<"A", "n", "t", "1">>, <<"X">>, <<"G", "P", "I", "O">>}

NetLists == UNION {[1..n -> NetNames] : n \in 0..MaxNets}

(***************************************************************************)
(* Layout data, configurations and runs of the mapper and pipeline         *)
(* specifications.                                                         *)
(***************************************************************************)
\* layout rules as the test configuration writes them, with a Default rule
LayoutRuleItems ==
    <<[name |-> "I2C",
       config |-> [impedance |-> "50 Ohm",
                   description |-> "I2C layout rules with proper shielding",
                   width |-> "5 mil", length_limit |-> "6 inch"]],
      [name |-> "RF",
       config |-> [impedance |-> "50 Ohm",
                   description |-> "RF layout with ground surrounding",
                   width |-> "Variable", length_limit |-> "Variable",
                   shielding |-> "Ground surrounding required"]],
      [name |-> "Default",
       config |-> [impedance |-> "50 Ohm", description |-> "General signal",
                   width |-> "5 mil", shielding |-> "Optional"]]>>

\* a layout rule without its description
LayoutRuleNoDescription == [name |-> "SPI", config |-> [impedance |-> "50 Ohm"]]

\* the template_mapping section of the test configuration: its columns as
\* the items of the dict, internal name and display header
template_columns ==
    [columns |-> << <<"Category", "Category">>, <<"Net Name", "Net Name">>,
                    <<"Pin", "Pin (MT7921)">>, <<"Description", "Description">>,
                    <<"Impedance", "Impedance">>, <<"Type", "Type">>,
                    <<"Width", "Width">>, <<"Length Limit", "Length Limit (mil)">> >>]

\* a schema of three columns, the net name first
short_columns ==
    [columns |-> << <<"Net Name", "Net Name">>, <<"Impedance", "Impedance">>,
                    <<"Category", "Category">> >>]

\* the configurations a TemplateMapper is built from
MapperConfigs ==
    { EmptyDict, [template_mapping |-> template_columns],
      [template_mapping |-> short_columns] }

\* a configuration that validates
ValidConfig ==
    [net_classification_rules |-> <<RuleRF, RuleClock, RuleBus, RuleLegacy>>,
     layout_rules |-> LayoutRuleItems,
     template_mapping |-> template_columns]

\* configurations that do not: a section absent, a classification rule without
\* priority, a layout rule without description
ConfigNoLayoutSection ==
    [net_classification_rules |-> <<RuleRF>>, template_mapping |-> template_columns]

ConfigRuleNoPriority ==
    [net_classification_rules |-> <<RuleRF, RuleI2C>>,
     layout_rules |-> LayoutRuleItems,
     template_mapping |-> template_columns]

ConfigLayoutNoDescription ==
    [net_classification_rules |-> <<RuleRF>>,
     layout_rules |-> LayoutRuleItems \o <<LayoutRuleNoDescription>>,
     template_mapping |-> template_columns]

ConfigFile(data) == [given |-> TRUE, exists |-> TRUE, loads |-> TRUE, data |-> data]

\* the default_config.yaml beside config_manager.py
DefaultConfigFile == ConfigFile(ValidConfig)

\* an installation with the default file, and one without it
DefaultConfigFiles ==
    { DefaultConfigFile,
      [given |-> TRUE, exists |-> FALSE, loads |-> FALSE, data |-> EmptyDict] }

\* what the caller passes as config_path: nothing, a file that is not there,
\* a file that is not YAML, and files of the configurations above
ConfigPaths ==
    { [given |-> FALSE, exists |-> FALSE, loads |-> FALSE, data |-> EmptyDict],
      [given |-> TRUE, exists |-> FALSE, loads |-> FALSE, data |-> EmptyDict],
      [given |-> TRUE, exists |-> TRUE, loads |-> FALSE, data |-> EmptyDict],
      ConfigFile(ValidConfig),
      ConfigFile(ConfigNoLayoutSection),
      ConfigFile(ConfigRuleNoPriority),
      ConfigFile(ConfigLayoutNoDescription) }

\* whether the styled write and the plain write to the output path succeed
Disks == [styled_write_ok : BOOLEAN, plain_write_ok : BOOLEAN]

OutputPaths == {"None", "out.xlsx"}

\* classifications the rule engine is given
SampleClassifications ==
    { [category |-> "RF", signal_type |-> "Single-End", rule_matched |-> "RF",
       priority |-> 1],
      [category |-> "Communication Interface", signal_type |-> "I2C",
       rule_matched |-> "I2C", priority |-> 100],
      DefaultClassification }

\* the layout data of the mapper test: no net_name, no rule_matched
SampleLayoutInfo ==
    [category |-> "Communication Interface", signal_type |-> "I2C",
     impedance |-> "50 Ohm", description |-> "I2C line", width |-> "5 mil",
     length_limit |-> "6 inch", spacing |-> "3W spacing", shielding |-> "Ground guard",
     layer_stack |-> "Any", notes |-> "", priority |-> 1]

LayoutItems ==
    { [net_name |-> n, info |-> ApplySingleRule(AsDict(LayoutRuleItems), n, c)]
        : n \in {<<"B">>, <<"A">>, <<"s", "c", "l">>}, c \in SampleClassifications }
    \cup { [net_name |-> <<"N", "E", "T", "1">>, info |-> SampleLayoutInfo] }

\* layout data: up to MaxLayoutNets items, each net name once, in any order
LayoutDatas ==
    UNION { {d \in [1..n -> LayoutItems] :
                \A i, j \in 1..n : i # j => d[i].net_name # d[j].net_name}
            : n \in 0..MaxLayoutNets }

\* the netlists of the runs: the line of the end-to-end scenario and short lines
RunLines ==
    { <<"5", " ", "R", "F", "_", "A", "N", "T", "1", " ", "R", "5", "6", "7", " ", "C", "8", "9", "0", " ", "L", "1", "2", "3">>,
      <<"1", " ", "B">>, <<" ", "2", "\t", "s", "c", "l", " ", "R", "1">>,
      <<"3", " ", "R", "1">>, <<"*", " ", "c">>, <<"4", " ", "1", "o", "h", "m">> }

RunContents == {JoinLines(ls) : ls \in UNION {[1..n -> RunLines] : n \in 0..MaxLines}}

RunNetlists ==
    {ReadableFile(c) : c \in RunContents}
    \cup { [exists |-> FALSE, readable |-> FALSE, decodable |-> FALSE, content |-> <<>>],
           [exists |-> TRUE, readable |-> TRUE, decodable |-> FALSE, content |-> <<>>] }

(***************************************************************************)
(* The specifications: one per component, the others at rest.             *)
(***************************************************************************)
NoFile == [exists |-> FALSE, readable |-> FALSE, decodable |-> FALSE, content |-> <<>>]

ParserIdle == netlist_file = NoFile /\ parse_out = NoParse
ClassifierIdle ==
    /\ classification_rules = <<>> /\ classify_in = <<>> /\ classify_out = NoClassify
    /\ classify_log = <<>> /\ rules_epoch = 0
NoMapIn ==
    [config |-> EmptyDict, layout_data |-> <<>>, output_path |-> "None",
     disk |-> [styled_write_ok |-> TRUE, plain_write_ok |-> TRUE]]
MapperIdle == map_in = NoMapIn /\ map_out = NoMap /\ reorder_out = NoReorder
NoRunIn ==
    [config_path |-> [given |-> FALSE, exists |-> FALSE, loads |-> FALSE, data |-> EmptyDict],
     default_config |-> DefaultConfigFile,
     netlist |-> NoFile,
     output_path |-> "None",
     disk |-> [styled_write_ok |-> TRUE, plain_write_ok |-> TRUE]]
RunIdle == run_in = NoRunIn /\ run_out = NoRun
NoEngineIn == [config |-> EmptyDict, classified_nets |-> <<>>]
NoApply == [status |-> "none"]
EngineIdle == engine_in = NoEngineIn /\ engine_out = NoApply
CoreIdle == ParserIdle /\ ClassifierIdle /\ MapperIdle /\ RunIdle /\ EngineIdle
NoTemplate == [exists |-> FALSE, readable |-> FALSE, columns |-> {}]
TemplateIdle == template_file = NoTemplate /\ validate_out = NoValidate
NoCall == [status |-> "none"]
EngineSessionIdle == engine_layout_rules = EmptyDict /\ engine_log = <<>>
ControllerIdle ==
    /\ ctl_layout_rules = EmptyDict /\ ctl_signals = <<>> /\ ctl_records = <<>>
    /\ ctl_out = NoCall
ConfigIdle ==
    /\ model_signal_rules = <<>> /\ model_layout_rules = <<>>
    /\ config_file_path = "None" /\ is_modified = FALSE
    /\ undo_stack = <<>> /\ redo_stack = <<>> /\ config_log = <<>>
WorkerIdle ==
    /\ worker_pc = "idle" /\ worker_iter = [pos |-> 0, used |-> 0]
    /\ worker_data = <<>> /\ worker_out = NoCall /\ model_history = {}
MappingIdle ==
    /\ tm_columns = <<>> /\ tm_column_order = <<>> /\ tm_hidden_columns = <<>>
    /\ tm_custom_headers = <<>> /\ tm_log = <<>>
TesterIdle == tester_in = NoCall /\ tester_out = NoCall
\* the components beside the pipeline at rest
GuiIdle ==
    /\ TemplateIdle /\ EngineSessionIdle /\ ControllerIdle /\ ConfigIdle
    /\ WorkerIdle /\ MappingIdle /\ TesterIdle

\* the parser: parse applied to a file
InitParser ==
    /\ netlist_file \in NetlistFiles
    /\ parse_out = NoParse
    /\ ClassifierIdle /\ MapperIdle /\ RunIdle /\ EngineIdle /\ GuiIdle

\* NetlistParser.parse(netlist_path)
Parse ==
    /\ parse_out' = ParseFile(netlist_file)
    /\ UNCHANGED <<netlist_file, classifierVars, mapperVars, runVars, engineVars, guiVars>>

NextParser == Parse

SpecParser == InitParser /\ [][NextParser]_vars

\* the classifier, holding the rule mapping its configuration manager gave it
InitClassifier ==
    /\ \E m \in RuleMappings :
          classification_rules = NetClassifierInit(RulesProvider(m)).classification_rules
    /\ classify_in \in NetLists
    /\ classify_out = NoClassify
    /\ classify_log = <<>> /\ rules_epoch = 0
    /\ ParserIdle /\ MapperIdle /\ RunIdle /\ EngineIdle /\ GuiIdle

\* NetClassifier.classify(net_names)
ClassifyNets ==
    /\ classify_out' = [status |-> "returned",
                        results |-> Classify(classification_rules, classify_in)]
    /\ UNCHANGED <<classification_rules, classify_in, classify_log, rules_epoch,
                   parserVars, mapperVars, runVars, engineVars, guiVars>>

NextClassifier == ClassifyNets

SpecClassifier == InitClassifier /\ [][NextClassifier]_vars

(***************************************************************************)
(* One classifier used for several calls: classify on different lists of   *)
(* names, add_custom_rule in between.                                      *)
(***************************************************************************)
SessionRuleMappings ==
    { <<RuleClock, RuleI2C>>, <<RuleRF, RuleClock>>, <<RuleBus, RuleI2C>> }

SessionNetLists ==
    { <<<<"I", "2", "C">>>>,
      <<<<"s", "c", "l">>>>,
      <<<<"s", "c", "l">>, <<"I", "2", "C">>>>,
      <<<<"R", "F">>, <<"X">>, <<"s", "c", "l">>>> }

\* the rules add_custom_rule is given: a new one, one under a name the mapping
\* may have, one without category
CustomRules ==
    { [name |-> "Custom",
       config |-> [keywords |-> <<<<"X">>>>, category |-> "Custom",
                   signal_type |-> "Custom", priority |-> 50]],
      [name |-> "Clock",
       config |-> [exact_matches |-> <<<<"c", "l", "k">>>>, category |-> "Clock",
                   signal_type |-> "Clock", priority |-> 5]],
      [name |-> "Bare", config |-> [exact_matches |-> <<<<"x">>>>]],
      [name |-> "Half", config |-> [keywords |-> <<<<"F">>>>, category |-> "Custom"]] }

InitSession ==
    /\ \E m \in SessionRuleMappings :
          classification_rules = NetClassifierInit(RulesProvider(m)).classification_rules
    /\ classify_in = <<>>
    /\ classify_out = NoClassify
    /\ classify_log = <<>> /\ rules_epoch = 0
    /\ ParserIdle /\ MapperIdle /\ RunIdle /\ EngineIdle /\ GuiIdle

\* classifier.classify(net_names), one more call on the same object
SessionClassify ==
    /\ Len(classify_log) < MaxCalls
    /\ \E net_names \in SessionNetLists :
          /\ classify_in' = net_names
          /\ classify_out' = [status |-> "returned",
                              results |-> Classify(classification_rules, net_names)]
          /\ classification_rules' = RulesAfterClassify(classification_rules, net_names)
          /\ classify_log' =
                Append(classify_log,
                       [epoch |-> rules_epoch,
                        net_names |-> net_names,
                        rules_before |-> classification_rules,
                        rules_after |-> RulesAfterClassify(classification_rules, net_names),
                        results |-> Classify(classification_rules, net_names)])
    /\ UNCHANGED <<rules_epoch, parserVars, mapperVars, runVars, engineVars, guiVars>>

\* classifier.add_custom_rule(rule_name, rule_config)
SessionAddCustomRule ==
    /\ rules_epoch < MaxAdds
    /\ \E r \in CustomRules :
          LET added == AddCustomRule(classification_rules, r.name, r.config) IN
          /\ classification_rules' = added.classification_rules
          /\ IF added.status = "raised"
             THEN /\ classify_out' =
                        [status |-> "raised", exc |-> added.exc, field |-> added.field,
                         rule_config |-> r.config,
                         rules_before |-> classification_rules,
                         rules_after |-> added.classification_rules]
                  /\ UNCHANGED rules_epoch
             ELSE /\ rules_epoch' = rules_epoch + 1
                  /\ classify_out' = [status |-> "added", rule_config |-> r.config]
    /\ UNCHANGED <<classify_in, classify_log, parserVars, mapperVars, runVars, engineVars, guiVars>>

NextSession == SessionClassify \/ SessionAddCustomRule

SpecSession == InitSession /\ [][NextSession]_vars

\* the template mapper: map_to_template applied to layout data
InitMapper ==
    /\ map_in \in [config : MapperConfigs, layout_data : LayoutDatas,
                    output_path : OutputPaths, disk : Disks]
    /\ map_out = NoMap
    /\ reorder_out = NoReorder
    /\ ParserIdle /\ ClassifierIdle /\ RunIdle /\ EngineIdle /\ GuiIdle

\* TemplateMapper.map_to_template(layout_data, output_path=...)
MapLayoutData ==
    /\ map_out' = MapToTemplate(map_in.layout_data, map_in.output_path, map_in.disk)
    /\ UNCHANGED <<map_in, reorder_out, parserVars, classifierVars, runVars, engineVars, guiVars>>

\* TemplateMapper(config)._reorder_columns(df), df the frame of the layout data
ReorderFrame ==
    /\ reorder_out' =
          [status |-> "returned",
           column_mapping |-> TemplateMapperInit(map_in.config),
           df |-> ReorderColumns(DataFrame(ConvertToDataframeFormat(map_in.layout_data)))]
    /\ UNCHANGED <<map_in, map_out, parserVars, classifierVars, runVars, engineVars, guiVars>>

NextMapper == MapLayoutData \/ ReorderFrame

SpecMapper == InitMapper /\ [][NextMapper]_vars

\* the pipeline: one run of process_netlist_to_excel
InitRun ==
    /\ run_in \in [config_path : ConfigPaths, default_config : DefaultConfigFiles,
                    netlist : RunNetlists, output_path : {"out.xlsx"}, disk : Disks]
    /\ run_out = NoRun
    /\ ParserIdle /\ ClassifierIdle /\ MapperIdle /\ EngineIdle /\ GuiIdle

\* process_netlist_to_excel(netlist_path, output_path=..., config_path=...)
RunPipeline ==
    /\ run_out' = ProcessNetlistToExcel(run_in)
    /\ UNCHANGED <<run_in, parserVars, classifierVars, mapperVars, engineVars, guiVars>>

NextRun == RunPipeline

SpecRun == InitRun /\ [][NextRun]_vars

(***************************************************************************)
(* The rule engine: apply_rules applied to classified nets.                *)
(***************************************************************************)
\* layout rules a configuration may hold, one per key the engine looks up,
\* told apart by their impedance; some leave optional fields out
EngineRulePool ==
    <<[name |-> "I2C",
       config |-> [impedance |-> "50 Ohm I2C", description |-> "I2C bus",
                   width |-> "5 mil", length_limit |-> "6 inch"]],
      [name |-> "PCIe",
       config |-> [impedance |-> "100 Ohm differential", description |-> "PCIe pair",
                   spacing |-> "Differential pair rules", via_rules |-> "Back-drilled"]],
      [name |-> "RF",
       config |-> [impedance |-> "50 Ohm RF", description |-> "RF trace",
                   shielding |-> "Ground surrounding required",
                   layer_stack |-> "Dedicated RF layers"]],
      [name |-> "Power",
       config |-> [impedance |-> "N/A", description |-> "Power rail",
                   notes |-> "Consider current density"]],
      [name |-> "Default",
       config |-> [impedance |-> "50 Ohm default", description |-> "General signal",
                   width |-> "5 mil", shielding |-> "Optional"]]>>

\* the configurations a RuleEngine is built from: none, one without a
\* layout_rules section, and one per subset of the rules above
EngineConfigs ==
    { EmptyDict, [template_mapping |-> template_columns] }
    \cup { [layout_rules |-> SelectSeq(EngineRulePool, LAMBDA r : r.name \in keys)]
             : keys \in SUBSET {"I2C", "PCIe", "RF", "Power", "Default"} }

\* classifications as _classify_single_net returns them
EngineClassifications ==
    { [category |-> "Communication Interface", signal_type |-> "I2C",
       rule_matched |-> "I2C", priority |-> 1],
      [category |-> "Communication Interface", signal_type |-> "SPI",
       rule_matched |-> "SPI", priority |-> 2],
      [category |-> "RF", signal_type |-> "Single-End", rule_matched |-> "RF",
       priority |-> 1],
      [category |-> "Power", signal_type |-> "RF", rule_matched |-> "Mixed",
       priority |-> 100],
      [category |-> "Power", signal_type |-> "Single-End", rule_matched |-> "Power",
       priority |-> 4],
      [category |-> "High Speed Interface", signal_type |-> "Differential",
       rule_matched |-> "USB", priority |-> 3],
      [category |-> "RF", signal_type |-> "Default", rule_matched |-> "Odd",
       priority |-> 5],
      [category |-> "Unknown", signal_type |-> "Single-End", rule_matched |-> "Bare",
       priority |-> 100],
      DefaultClassification }

EngineNetNames == {<<"A">>, <<"B">>, <<"C">>}

\* classified nets: the items of a dict of up to MaxClassified nets
ClassifiedNets ==
    UNION { {d \in [1..n -> [net_name : EngineNetNames,
                              classification : EngineClassifications]] :
                \A i, j \in 1..n : i # j => d[i].net_name # d[j].net_name}
            : n \in 0..MaxClassified }

InitEngine ==
    /\ engine_in \in [config : EngineConfigs, classified_nets : ClassifiedNets]
    /\ engine_out = NoApply
    /\ ParserIdle /\ ClassifierIdle /\ MapperIdle /\ RunIdle /\ GuiIdle

\* RuleEngine(config).apply_rules(classified_nets)
ApplyLayoutRules ==
    /\ engine_out' = [status |-> "returned",
                      layout_rules |-> RuleEngineInit(engine_in.config),
                      results |-> ApplyRules(RuleEngineInit(engine_in.config),
                                             engine_in.classified_nets)]
    /\ UNCHANGED <<engine_in, parserVars, classifierVars, mapperVars, runVars, guiVars>>

NextEngine == ApplyLayoutRules

SpecEngine == InitEngine /\ [][NextEngine]_vars

(***************************************************************************)
(* One rule engine across calls: add_custom_rule, validate_rule_config and *)
(* apply_rules on the same object.                                         *)
(***************************************************************************)
\* the configurations the engine is built from: none, one with two rules, one
\* with an empty layout_rules section
EngineSessionConfigs ==
    { EmptyDict,
      [layout_rules |-> SelectSeq(EngineRulePool, LAMBDA r : r.name \in {"I2C", "Default"})],
      [layout_rules |-> <<>>] }

\* the names rules are registered under: a new one and one of the built-in rules
CustomRuleTypes == {"CUSTOM", "I2C"}

\* the rule configs given: a complete one, one with an empty impedance, one
\* without description, an empty one
CustomLayoutRules ==
    { [impedance |-> "75 Ohm", description |-> "Custom"],
      [impedance |-> "", description |-> "desc"],
      [impedance |-> "50 Ohm"],
      EmptyDict }

\* the classified nets apply_rules is given in a session
SessionClassifiedNets ==
    { <<[net_name |-> <<"A">>,
         classification |-> [category |-> "Custom", signal_type |-> "CUSTOM",
                             rule_matched |-> "Custom", priority |-> 50]]>>,
      <<[net_name |-> <<"B">>,
         classification |-> [category |-> "Communication Interface",
                             signal_type |-> "I2C", rule_matched |-> "I2C",
                             priority |-> 1]]>>,
      <<[net_name |-> <<"C">>,
         classification |-> [category |-> "Communication Interface",
                             signal_type |-> "Single-End", rule_matched |-> "Bus",
                             priority |-> 2]]>> }

InitEngineSession ==
    /\ \E config \in EngineSessionConfigs : engine_layout_rules = RuleEngineInit(config)
    /\ engine_log = <<>>
    /\ CoreIdle /\ TemplateIdle /\ ControllerIdle /\ ConfigIdle
    /\ WorkerIdle /\ MappingIdle /\ TesterIdle

\* engine.add_custom_rule(rule_type, rule_config)
EngineAddCustomRule ==
    /\ Len(engine_log) < MaxCalls
    /\ \E rule_type \in CustomRuleTypes, rule_config \in CustomLayoutRules :
          /\ engine_layout_rules' =
                RuleEngineAddCustomRule(engine_layout_rules, rule_type, rule_config)
          /\ engine_log' =
                Append(engine_log,
                       [op |-> "add_custom_rule", rule_type |-> rule_type,
                        rule_config |-> rule_config, before |-> engine_layout_rules,
                        after |-> RuleEngineAddCustomRule(engine_layout_rules,
                                                          rule_type, rule_config)])
    /\ UNCHANGED <<coreVars, templateVars, controllerVars, configVars, workerVars,
                   mappingVars, testerVars>>

\* engine.validate_rule_config(rule_config)
EngineValidateRuleConfig ==
    /\ Len(engine_log) < MaxCalls
    /\ \E rule_config \in CustomLayoutRules :
          engine_log' =
              Append(engine_log,
                     [op |-> "validate_rule_config", rule_config |-> rule_config,
                      status |-> "returned", value |-> ValidateRuleConfig(rule_config),
                      before |-> engine_layout_rules, after |-> engine_layout_rules])
    /\ UNCHANGED <<engine_layout_rules, coreVars, templateVars, controllerVars,
                   configVars, workerVars, mappingVars, testerVars>>

\* engine.apply_rules(classified_nets)
EngineApplyRules ==
    /\ Len(engine_log) < MaxCalls
    /\ \E classified_nets \in SessionClassifiedNets :
          engine_log' =
              Append(engine_log,
                     [op |-> "apply_rules", classified_nets |-> classified_nets,
                      results |-> ApplyRules(engine_layout_rules, classified_nets),
                      before |-> engine_layout_rules, after |-> engine_layout_rules])
    /\ UNCHANGED <<engine_layout_rules, coreVars, templateVars, controllerVars,
                   configVars, workerVars, mappingVars, testerVars>>

NextEngineSession == EngineAddCustomRule \/ EngineValidateRuleConfig \/ EngineApplyRules

SpecEngineSession == InitEngineSession /\ [][NextEngineSession]_vars

(***************************************************************************)
(* The layout rule controller: add_rule and remove_rule on one controller. *)
(***************************************************************************)
ControllerRuleNames == {"rule1", "rule2"}

\* what add_rule is given as rule_data: nothing, an empty dict, dicts of rule
\* fields, and lists, which have no get
ControllerRuleData ==
    { PyNone, PyDict(EmptyDict), PyDict([foo |-> "bar"]),
      PyDict([impedance |-> "75 Ohm", description |-> "Custom"]),
      PyList(<<>>), PyList(<<"impedance">>) }

\* LayoutRuleController(layout_rules): the dict it is given, here an empty
\* one or one that holds rule1
InitController ==
    /\ ctl_layout_rules \in
          { EmptyDict, [k \in {"rule1"} |-> [NewLayoutRuleModel EXCEPT !.name = "rule1"]] }
    /\ ctl_signals = <<>> /\ ctl_records = <<>> /\ ctl_out = NoCall
    /\ CoreIdle /\ TemplateIdle /\ EngineSessionIdle /\ ConfigIdle
    /\ WorkerIdle /\ MappingIdle /\ TesterIdle

\* controller.add_rule(rule_name, rule_data)
ControllerAddRule ==
    /\ Len(ctl_signals) < MaxCalls
    /\ \E rule_name \in ControllerRuleNames, rule_data \in ControllerRuleData :
          LET added == LayoutAddRule(ctl_layout_rules, rule_name, rule_data) IN
          /\ ctl_layout_rules' = added.layout_rules
          /\ ctl_signals' = ctl_signals \o added.signals
          /\ ctl_records' = ctl_records \o added.records
          /\ ctl_out' = [op |-> "add_rule", rule_name |-> rule_name,
                         rule_data |-> rule_data, status |-> added.status,
                         result |-> added, layout_rules_before |-> ctl_layout_rules,
                         signals_before |-> ctl_signals,
                         records_before |-> ctl_records]
    /\ UNCHANGED <<coreVars, templateVars, engineSessionVars, configVars, workerVars,
                   mappingVars, testerVars>>

\* controller.remove_rule(rule_name)
ControllerRemoveRule ==
    /\ Len(ctl_signals) < MaxCalls
    /\ \E rule_name \in ControllerRuleNames :
          LET removed == LayoutRemoveRule(ctl_layout_rules, rule_name) IN
          /\ ctl_layout_rules' = removed.layout_rules
          /\ ctl_signals' = ctl_signals \o removed.signals
          /\ ctl_out' = [op |-> "remove_rule", rule_name |-> rule_name,
                         status |-> removed.status, result |-> removed,
                         layout_rules_before |-> ctl_layout_rules,
                         signals_before |-> ctl_signals,
                         records_before |-> ctl_records]
    /\ UNCHANGED <<ctl_records, coreVars, templateVars, engineSessionVars, configVars,
                   workerVars, mappingVars, testerVars>>

NextController == ControllerAddRule \/ ControllerRemoveRule

SpecController == InitController /\ [][NextController]_vars

(***************************************************************************)
(* The configuration controller with its model: edits of the rule dicts,   *)
(* load, undo and redo. Signals are delivered as direct calls, so each     *)
(* action holds the slots the emission runs.                               *)
(***************************************************************************)
GuiRuleNames == {"R1", "R2"}

\* a configuration of one signal rule and one layout rule
SmallConfig ==
    [net_classification_rules |-> <<RuleClock>>,
     layout_rules |-> SelectSeq(EngineRulePool, LAMBDA r : r.name = "Default")]

\* the files load_config_file is given: none at the path, one that does not
\* load as a mapping, and two configurations
GuiConfigFiles ==
    { [given |-> TRUE, exists |-> FALSE, loads |-> FALSE, data |-> EmptyDict],
      [given |-> TRUE, exists |-> TRUE, loads |-> FALSE, data |-> EmptyDict],
      ConfigFile(ValidConfig),
      ConfigFile(SmallConfig) }

\* the state of the model as _build_config_data gives it
CurrentConfigData == BuildConfigData(model_signal_rules, model_layout_rules)

\* ConfigurationModel(), which loads default_config.yaml when it is there,
\* then ConfigurationController(model)
InitConfig ==
    /\ \E default \in DefaultConfigFiles :
          LET parsed == ParseConfigData(default.data) IN
          /\ model_signal_rules = IF default.exists THEN parsed.signal_rules ELSE <<>>
          /\ model_layout_rules = IF default.exists THEN parsed.layout_rules ELSE <<>>
          /\ config_file_path = IF default.exists THEN "default_config.yaml" ELSE "None"
    /\ is_modified = FALSE /\ undo_stack = <<>> /\ redo_stack = <<>>
    /\ config_log = <<>>

\* _on_model_changed, the slot of dataChanged, run with the model as it is
\* after the change
OnModelChanged(signal_rules, layout_rules, stack) ==
    /\ is_modified' = TRUE
    /\ undo_stack' = SaveStateForUndo(stack, BuildConfigData(signal_rules, layout_rules))
    /\ redo_stack' = <<>>

\* the entry of the log for a call
Logged(op, value, signal_rules, layout_rules) ==
    config_log' = Append(config_log,
                         [op |-> op, value |-> value, before |-> CurrentConfigData,
                          after |-> BuildConfigData(signal_rules, layout_rules)])

\* config_model.add_signal_rule(rule_name)
AddSignalRuleCall ==
    /\ Len(config_log) < MaxCalls
    /\ \E rule_name \in GuiRuleNames :
          LET signal_rules == PutRule(model_signal_rules, rule_name,
                                      [NewSignalRuleModel EXCEPT !.name = rule_name])
          IN /\ model_signal_rules' = signal_rules
             /\ OnModelChanged(signal_rules, model_layout_rules, undo_stack)
             /\ Logged("add_signal_rule", TRUE, signal_rules, model_layout_rules)
    /\ UNCHANGED <<model_layout_rules, config_file_path>>

\* config_model.remove_signal_rule(rule_name)
RemoveSignalRule ==
    /\ Len(config_log) < MaxCalls
    /\ \E rule_name \in GuiRuleNames :
          IF HasRule(model_signal_rules, rule_name)
          THEN LET signal_rules == DelRule(model_signal_rules, rule_name) IN
               /\ model_signal_rules' = signal_rules
               /\ OnModelChanged(signal_rules, model_layout_rules, undo_stack)
               /\ Logged("remove_signal_rule", TRUE, signal_rules, model_layout_rules)
          ELSE /\ Logged("remove_signal_rule", FALSE, model_signal_rules,
                         model_layout_rules)
               /\ UNCHANGED <<model_signal_rules, is_modified, undo_stack, redo_stack>>
    /\ UNCHANGED <<model_layout_rules, config_file_path>>
    /\ UNCHANGED <<besideConfig, workerVars>>

\* config_model.add_layout_rule(rule_name)
AddLayoutRule ==
    /\ Len(config_log) < MaxCalls
    /\ \E rule_name \in GuiRuleNames :
          LET layout_rules == PutRule(model_layout_rules, rule_name,
                                      [NewLayoutRuleModel EXCEPT !.name = rule_name])
          IN /\ model_layout_rules' = layout_rules
             /\ OnModelChanged(model_signal_rules, layout_rules, undo_stack)
             /\ Logged("add_layout_rule", TRUE, model_signal_rules, layout_rules)
    /\ UNCHANGED <<model_signal_rules, config_file_path>>
    /\ UNCHANGED <<besideConfig, workerVars>>

\* config_model.remove_layout_rule(rule_name)
RemoveLayoutRule ==
    /\ Len(config_log) < MaxCalls
    /\ \E rule_name \in GuiRuleNames :
          IF HasRule(model_layout_rules, rule_name)
          THEN LET layout_rules == DelRule(model_layout_rules, rule_name) IN
               /\ model_layout_rules' = layout_rules
               /\ OnModelChanged(model_signal_rules, layout_rules, undo_stack)
               /\ Logged("remove_layout_rule", TRUE, model_signal_rules, layout_rules)
          ELSE /\ Logged("remove_layout_rule", FALSE, model_signal_rules,
                         model_layout_rules)
               /\ UNCHANGED <<model_layout_rules, is_modified, undo_stack, redo_stack>>
    /\ UNCHANGED <<model_signal_rules, config_file_path>>
    /\ UNCHANGED <<besideConfig, workerVars>>

\* controller.load_config_file(config_path): load_config of the model; on
\* success configLoaded runs _on_config_loaded, which clears the stacks, and
\* then dataChanged runs _on_model_changed
LoadConfigFile ==
    /\ Len(config_log) < MaxCalls
    /\ \E file \in GuiConfigFiles :
          IF file.exists /\ file.loads
          THEN LET parsed == ParseConfigData(file.data) IN
               /\ model_signal_rules' = parsed.signal_rules
               /\ model_layout_rules' = parsed.layout_rules
               /\ config_file_path' = "config.yaml"
               /\ OnModelChanged(parsed.signal_rules, parsed.layout_rules, <<>>)
               /\ Logged("load_config_file", TRUE, parsed.signal_rules,
                         parsed.layout_rules)
          ELSE /\ Logged("load_config_file", FALSE, model_signal_rules,
                         model_layout_rules)
               /\ UNCHANGED <<model_signal_rules, model_layout_rules, config_file_path,
                              is_modified, undo_stack, redo_stack>>
    /\ UNCHANGED <<besideConfig, workerVars>>

\* controller.undo()
Undo ==
    /\ Len(config_log) < MaxCalls
    /\ IF undo_stack = <<>>
       THEN /\ Logged("undo", FALSE, model_signal_rules, model_layout_rules)
            /\ UNCHANGED <<model_signal_rules, model_layout_rules, undo_stack,
                           redo_stack>>
       ELSE LET previous_state == undo_stack[Len(undo_stack)]
                parsed == ParseConfigData(previous_state)
            IN /\ redo_stack' = Append(redo_stack, CurrentConfigData)
               /\ undo_stack' = SubSeq(undo_stack, 1, Len(undo_stack) - 1)
               /\ model_signal_rules' = parsed.signal_rules
               /\ model_layout_rules' = parsed.layout_rules
               /\ Logged("undo", TRUE, parsed.signal_rules, parsed.layout_rules)
    /\ UNCHANGED <<is_modified, config_file_path>>
    /\ UNCHANGED <<besideConfig, workerVars>>

\* controller.redo()
Redo ==
    /\ Len(config_log) < MaxCalls
    /\ IF redo_stack = <<>>
       THEN /\ Logged("redo", FALSE, model_signal_rules, model_layout_rules)
            /\ UNCHANGED <<model_signal_rules, model_layout_rules, undo_stack,
                           redo_stack>>
       ELSE LET next_state == redo_stack[Len(redo_stack)]
                parsed == ParseConfigData(next_state)
            IN /\ undo_stack' = Append(undo_stack, CurrentConfigData)
               /\ redo_stack' = SubSeq(redo_stack, 1, Len(redo_stack) - 1)
               /\ model_signal_rules' = parsed.signal_rules
               /\ model_layout_rules' = parsed.layout_rules
               /\ Logged("redo", TRUE, parsed.signal_rules, parsed.layout_rules)
    /\ UNCHANGED <<is_modified, config_file_path>>
    /\ UNCHANGED <<besideConfig, workerVars>>

InitConfigSession ==
    /\ InitConfig
    /\ CoreIdle /\ TemplateIdle /\ EngineSessionIdle /\ ControllerIdle
    /\ WorkerIdle /\ MappingIdle /\ TesterIdle

\* config_model.add_signal_rule(rule_name) with no run in progress
AddSignalRule == AddSignalRuleCall /\ UNCHANGED <<besideConfig, workerVars>>

NextConfigSession ==
    \/ AddSignalRule \/ RemoveSignalRule \/ AddLayoutRule \/ RemoveLayoutRule
    \/ LoadConfigFile \/ Undo \/ Redo

SpecConfigSession == InitConfigSession /\ [][NextConfigSession]_vars

(***************************************************************************)
(* The background run: start_processing in the GUI thread, run in the      *)
(* worker thread, and the edits the GUI thread makes meanwhile. The two    *)
(* threads share the rule models; a step of the worker is one step of the  *)
(* dict iteration of _build_config_data, and a rule is read by one to_dict.*)
(***************************************************************************)
\* a configuration of two signal rules that validate
TwoRuleConfig ==
    [net_classification_rules |-> <<RuleRF, RuleClock>>,
     layout_rules |-> SelectSeq(EngineRulePool, LAMBDA r : r.name = "Default")]

\* the configurations the model holds when the user starts a run
WorkerConfigs == {TwoRuleConfig, SmallConfig, ValidConfig}

\* the netlist of the run
WorkerNetlist == ReadableFile(JoinLines(<< <<"1", " ", "B">> >>))

\* the priorities and categories the rule editor writes
EditedPriorities == {1, 7}
EditedCategories == {"Power"}

NoTempFile == [written |-> FALSE, data |-> EmptyDict]

InitWorker ==
    /\ \E config \in WorkerConfigs :
          /\ model_signal_rules = ParseConfigData(config).signal_rules
          /\ model_layout_rules = ParseConfigData(config).layout_rules
    /\ config_file_path = "default_config.yaml"
    /\ is_modified = FALSE /\ undo_stack = <<>> /\ redo_stack = <<>>
    /\ config_log = <<>>
    /\ WorkerIdle
    /\ CoreIdle /\ TemplateIdle /\ EngineSessionIdle /\ ControllerIdle
    /\ MappingIdle /\ TesterIdle

\* the run has been started and has not written its temporary file yet
WorkerReading == worker_pc \in {"started", "building"}

\* the configurations the model has had during the run, with the one an edit
\* gives
Remember(signal_rules, layout_rules) ==
    model_history' =
        IF WorkerReading
        THEN model_history \cup {BuildConfigData(signal_rules, layout_rules)}
        ELSE model_history

\* NetlistProcessor.start_processing with a netlist that exists: nothing is
\* started when validate_config reports errors
StartProcessing ==
    /\ worker_pc = "idle" /\ worker_out = NoCall
    /\ IF ModelValidateConfig(model_signal_rules, model_layout_rules) # {}
       THEN /\ worker_out' = [status |-> "refused", file |-> NoTempFile,
                              pending |-> <<>>]
            /\ UNCHANGED <<worker_pc, model_history>>
       ELSE /\ worker_pc' = "started"
            /\ model_history' = {CurrentConfigData}
            /\ worker_out' = [status |-> "running", file |-> NoTempFile,
                              pending |-> <<>>]
    /\ UNCHANGED <<worker_iter, worker_data, configVars, besideConfig>>

\* run, up to `for rule_name, signal_rule in self.signal_rules.items()`: the
\* iterator is made and notes the size of the dict
WorkerBeginBuild ==
    /\ worker_pc = "started"
    /\ worker_pc' = "building"
    /\ worker_iter' = [pos |-> 0, used |-> Len(model_signal_rules)]
    /\ worker_data' = <<>>
    /\ UNCHANGED <<worker_out, model_history, configVars, besideConfig>>

\* one step of the iteration. A dict that has changed size makes the
\* iterator raise RuntimeError, which save_config turns into False: the
\* temporary file stays empty. A rule left is read by to_dict. When none is
\* left the other sections are built and the file is written; save_config
\* then sets config_file_path and emits configSaved, queued for the GUI thread
WorkerNextRule ==
    /\ worker_pc = "building"
    /\ IF Len(model_signal_rules) # worker_iter.used
       THEN /\ worker_pc' = "saved"
            /\ worker_out' = [status |-> "running", file |-> NoTempFile,
                              pending |-> <<>>]
            /\ UNCHANGED <<worker_iter, worker_data, config_file_path>>
       ELSE IF worker_iter.pos < Len(model_signal_rules)
       THEN /\ worker_iter' = [worker_iter EXCEPT !.pos = @ + 1]
            /\ worker_data' =
                  Append(worker_data,
                         [name |-> model_signal_rules[worker_iter.pos + 1].name,
                          config |-> SignalRuleToDict(
                                         model_signal_rules[worker_iter.pos + 1].rule)])
            /\ UNCHANGED <<worker_pc, worker_out, config_file_path>>
       ELSE /\ worker_pc' = "saved"
            /\ worker_out' =
                  [status |-> "running",
                   file |-> [written |-> TRUE,
                             data |-> [net_classification_rules |-> worker_data,
                                       layout_rules |->
                                           BuildConfigData(<<>>, model_layout_rules)
                                               .layout_rules,
                                       template_mapping |-> template_columns]],
                   pending |-> <<"configSaved">>]
            /\ config_file_path' = "temp.yaml"
            /\ UNCHANGED <<worker_iter, worker_data>>
    /\ UNCHANGED <<model_history, model_signal_rules, model_layout_rules, is_modified,
                   undo_stack, redo_stack, config_log, besideConfig>>

\* the rest of run: process_netlist_to_excel with the temporary file as
\* config_path, then finished or error
WorkerProcess ==
    /\ worker_pc = "saved"
    /\ worker_pc' = "done"
    /\ LET ran == ProcessNetlistToExcel(
                      [config_path |-> [given |-> TRUE, exists |-> TRUE,
                                        loads |-> worker_out.file.written,
                                        data |-> worker_out.file.data],
                       default_config |-> DefaultConfigFile,
                       netlist |-> WorkerNetlist, output_path |-> "out.xlsx",
                       disk |-> [styled_write_ok |-> TRUE, plain_write_ok |-> TRUE]])
       IN worker_out' =
              [worker_out EXCEPT
                  !.status = IF ran.status = "returned" THEN "finished" ELSE "error"]
    /\ UNCHANGED <<worker_iter, worker_data, model_history, configVars, besideConfig>>

\* _on_config_saved, the slot of the queued configSaved, in the GUI thread
DeliverConfigSaved ==
    /\ worker_out.status # "none"
    /\ worker_out.pending # <<>>
    /\ worker_out' = [worker_out EXCEPT !.pending = Tail(@)]
    /\ is_modified' = FALSE
    /\ UNCHANGED <<worker_pc, worker_iter, worker_data, model_history,
                   model_signal_rules, model_layout_rules, config_file_path,
                   undo_stack, redo_stack, config_log, besideConfig>>

\* the rule editor saving a rule: signal_rule.set_priority(priority)
GuiSetPriority ==
    /\ Len(config_log) < MaxCalls
    /\ \E i \in 1..Len(model_signal_rules), priority \in EditedPriorities :
          LET signal_rules ==
                  [model_signal_rules EXCEPT ![i].rule.priority = priority]
          IN /\ model_signal_rules' = signal_rules
             /\ Logged("set_priority", model_signal_rules[i].rule.priority # priority,
                       signal_rules, model_layout_rules)
             /\ Remember(signal_rules, model_layout_rules)
    /\ UNCHANGED <<model_layout_rules, config_file_path, is_modified, undo_stack,
                   redo_stack, worker_pc, worker_iter, worker_data, worker_out,
                   besideConfig>>

\* the rule editor saving a rule: signal_rule.set_category(category)
GuiSetCategory ==
    /\ Len(config_log) < MaxCalls
    /\ \E i \in 1..Len(model_signal_rules), category \in EditedCategories :
          LET signal_rules ==
                  [model_signal_rules EXCEPT ![i].rule.category = category]
          IN /\ model_signal_rules' = signal_rules
             /\ Logged("set_category", model_signal_rules[i].rule.category # category,
                       signal_rules, model_layout_rules)
             /\ Remember(signal_rules, model_layout_rules)
    /\ UNCHANGED <<model_layout_rules, config_file_path, is_modified, undo_stack,
                   redo_stack, worker_pc, worker_iter, worker_data, worker_out,
                   besideConfig>>

\* config_model.add_signal_rule(rule_name) from the GUI thread
GuiAddSignalRule ==
    /\ AddSignalRuleCall
    /\ Remember(model_signal_rules', model_layout_rules)
    /\ UNCHANGED <<worker_pc, worker_iter, worker_data, worker_out, besideConfig>>

NextWorker ==
    \/ StartProcessing \/ WorkerBeginBuild \/ WorkerNextRule \/ WorkerProcess
    \/ DeliverConfigSaved \/ GuiSetPriority \/ GuiSetCategory \/ GuiAddSignalRule

SpecWorker == InitWorker /\ [][NextWorker]_vars

(***************************************************************************)
(* The template mapping model: the column operations on a default model.   *)
(***************************************************************************)
\* the internal names the operations are given: columns of the default
\* model, a new one, the empty name
ColumnNames == {"Category", "Notes", "Custom_Field", ""}

DisplayNames == {"Custom", ""}

\* the orders update_column_order is given: empty, two columns, one column
\* twice, a new column with a name that is no column
NewOrders ==
    { <<>>, <<"Notes", "Category">>, <<"Category", "Category">>,
      <<"Custom_Field", "Bogus", "Net_Name">> }

\* TemplateMappingModel()
InitMapping ==
    /\ tm_columns = default_columns
    /\ tm_column_order = ColumnKeys(default_columns)
    /\ tm_hidden_columns = <<>> /\ tm_custom_headers = <<>>
    /\ tm_log = <<>>
    /\ CoreIdle /\ TemplateIdle /\ EngineSessionIdle /\ ControllerIdle /\ ConfigIdle
    /\ WorkerIdle /\ TesterIdle

\* template.add_column(internal_name, display_name)
AddColumn ==
    /\ Len(tm_log) < MaxColumnCalls
    /\ tm_log' = Append(tm_log, "add_column")
    /\ \E internal_name \in ColumnNames, display_name \in DisplayNames :
          IF internal_name # "" /\ display_name # ""
          THEN /\ tm_columns' = PutColumn(tm_columns, internal_name, display_name)
               /\ tm_column_order' =
                     IF internal_name \notin Range(tm_column_order)
                     THEN Append(tm_column_order, internal_name)
                     ELSE tm_column_order
          ELSE UNCHANGED <<tm_columns, tm_column_order>>
    /\ UNCHANGED <<tm_hidden_columns, tm_custom_headers, besideMapping>>

\* template.remove_column(internal_name)
RemoveColumn ==
    /\ Len(tm_log) < MaxColumnCalls
    /\ tm_log' = Append(tm_log, "remove_column")
    /\ \E internal_name \in ColumnNames :
          IF internal_name \in Range(ColumnKeys(tm_columns))
          THEN /\ tm_columns' = SelectSeq(tm_columns, LAMBDA c : c.name # internal_name)
               /\ tm_column_order' =
                     IF internal_name \in Range(tm_column_order)
                     THEN ListRemove(tm_column_order, internal_name)
                     ELSE tm_column_order
               /\ tm_hidden_columns' =
                     IF internal_name \in Range(tm_hidden_columns)
                     THEN ListRemove(tm_hidden_columns, internal_name)
                     ELSE tm_hidden_columns
               /\ tm_custom_headers' =
                     SelectSeq(tm_custom_headers, LAMBDA h : h.name # internal_name)
          ELSE UNCHANGED <<tm_columns, tm_column_order, tm_hidden_columns,
                           tm_custom_headers>>
    /\ UNCHANGED besideMapping

\* template.update_column_order(new_order)
UpdateColumnOrder ==
    /\ Len(tm_log) < MaxColumnCalls
    /\ tm_log' = Append(tm_log, "update_column_order")
    /\ \E new_order \in NewOrders : tm_column_order' = ValidOrder(tm_columns, new_order)
    /\ UNCHANGED <<tm_columns, tm_hidden_columns, tm_custom_headers, besideMapping>>

\* template.move_column_up(internal_name)
MoveColumnUp ==
    /\ Len(tm_log) < MaxColumnCalls
    /\ tm_log' = Append(tm_log, "move_column_up")
    /\ \E internal_name \in ColumnNames :
          IF internal_name \in Range(tm_column_order)
             /\ ListIndex(tm_column_order, internal_name) > 1
          THEN LET current_index == ListIndex(tm_column_order, internal_name) IN
               tm_column_order' = ListSwap(tm_column_order, current_index, current_index - 1)
          ELSE UNCHANGED tm_column_order
    /\ UNCHANGED <<tm_columns, tm_hidden_columns, tm_custom_headers, besideMapping>>

\* template.move_column_down(internal_name)
MoveColumnDown ==
    /\ Len(tm_log) < MaxColumnCalls
    /\ tm_log' = Append(tm_log, "move_column_down")
    /\ \E internal_name \in ColumnNames :
          IF internal_name \in Range(tm_column_order)
             /\ ListIndex(tm_column_order, internal_name) < Len(tm_column_order)
          THEN LET current_index == ListIndex(tm_column_order, internal_name) IN
               tm_column_order' = ListSwap(tm_column_order, current_index, current_index + 1)
          ELSE UNCHANGED tm_column_order
    /\ UNCHANGED <<tm_columns, tm_hidden_columns, tm_custom_headers, besideMapping>>

\* template.hide_column(internal_name)
HideColumn ==
    /\ Len(tm_log) < MaxColumnCalls
    /\ tm_log' = Append(tm_log, "hide_column")
    /\ \E internal_name \in ColumnNames :
          tm_hidden_columns' =
              IF internal_name \in Range(ColumnKeys(tm_columns))
                 /\ internal_name \notin Range(tm_hidden_columns)
              THEN Append(tm_hidden_columns, internal_name)
              ELSE tm_hidden_columns
    /\ UNCHANGED <<tm_columns, tm_column_order, tm_custom_headers, besideMapping>>

\* template.show_column(internal_name)
ShowColumn ==
    /\ Len(tm_log) < MaxColumnCalls
    /\ tm_log' = Append(tm_log, "show_column")
    /\ \E internal_name \in ColumnNames :
          tm_hidden_columns' =
              IF internal_name \in Range(tm_hidden_columns)
              THEN ListRemove(tm_hidden_columns, internal_name)
              ELSE tm_hidden_columns
    /\ UNCHANGED <<tm_columns, tm_column_order, tm_custom_headers, besideMapping>>

NextMapping ==
    \/ AddColumn \/ RemoveColumn \/ UpdateColumnOrder \/ MoveColumnUp
    \/ MoveColumnDown \/ HideColumn \/ ShowColumn

SpecMapping == InitMapping /\ [][NextMapping]_vars

(***************************************************************************)
(* The rule tester: test_rule_against_nets on a controller of one rule.    *)
(***************************************************************************)
\* the keywords, patterns and exact matches of the rules tested: lower-case
\* criteria, a pattern that does not compile alone and before one that does
TesterKeywords == { <<>>, << <<"c", "k">> >> }

TesterPatterns ==
    { <<>>, << <<"*", "X">> >>,
      << <<"*", "X">>, <<"^", "a", ".", "*", "k", "$">> >>,
      << <<"A", "*", "b">> >> }

TesterExactMatches == { <<>>, << <<"x">> >> }

TesterRules ==
    { [NewSignalRuleModel EXCEPT !.name = "R1", !.keywords = k, !.patterns = p,
                                 !.exact_matches = e, !.enabled = en]
        : k \in TesterKeywords, p \in TesterPatterns, e \in TesterExactMatches,
          en \in BOOLEAN }

TesterNets == { <<"A", "B">>, <<"C", "K", "1">>, <<"A", "c", "k">>, <<"X">> }

TesterNetLists == UNION { [1..n -> TesterNets] : n \in 0..MaxTestNets }

InitTester ==
    /\ tester_in \in
          { [status |-> "given", signal_rules |-> <<[name |-> "R1", rule |-> rule]>>,
             rule_name |-> rule_name, net_list |-> net_list]
              : rule \in TesterRules, rule_name \in GuiRuleNames,
                net_list \in TesterNetLists }
    /\ tester_out = NoCall
    /\ CoreIdle /\ TemplateIdle /\ EngineSessionIdle /\ ControllerIdle /\ ConfigIdle
    /\ WorkerIdle /\ MappingIdle

\* controller.test_rule_against_nets(rule_name, net_list)
TestRule ==
    /\ tester_out = NoCall
    /\ tester_out' = TestRuleAgainstNets(tester_in.signal_rules, tester_in.rule_name,
                                         tester_in.net_list)
    /\ UNCHANGED <<tester_in, coreVars, templateVars, engineSessionVars,
                   controllerVars, configVars, workerVars, mappingVars>>

NextTester == TestRule

SpecTester == InitTester /\ [][NextTester]_vars

(***************************************************************************)
(* The template check: validate_template applied to a file.                *)
(***************************************************************************)
\* the column headers a template sheet may have
TemplateHeaders ==
    {"Category", "Net Name", "Description", "Impedance", "Pin (MT7921)", "category"}

\* template files: none at the path, one that is no workbook, and workbooks
\* with any of the headers
TemplateFiles ==
    { NoTemplate, [exists |-> TRUE, readable |-> FALSE, columns |-> {}] }
    \cup { [exists |-> TRUE, readable |-> TRUE, columns |-> cols]
             : cols \in SUBSET TemplateHeaders }

InitTemplate ==
    /\ template_file \in TemplateFiles
    /\ validate_out = NoValidate
    /\ CoreIdle /\ EngineSessionIdle /\ ControllerIdle /\ ConfigIdle
    /\ WorkerIdle /\ MappingIdle /\ TesterIdle

\* TemplateMapper.validate_template(template_path)
CheckTemplate ==
    /\ validate_out' = ValidateTemplate(template_file)
    /\ UNCHANGED <<template_file, coreVars, engineSessionVars, controllerVars,
                   configVars, workerVars, mappingVars, testerVars>>

NextTemplate == CheckTemplate

SpecTemplate == InitTemplate /\ [][NextTemplate]_vars

(***************************************************************************)
(* Claims about NetlistParser, checked under SpecParser.                   *)
(***************************************************************************)
Digits10 == {"0", "1", "2", "3", "4", "5", "6", "7", "8", "9"}

Letters52 ==
    {"a", "b", "c", "d", "e", "f", "g", "h", "i", "j", "k", "l", "m", "n", "o", "p",
     "q", "r", "s", "t", "u", "v", "w", "x", "y", "z", "A", "B", "C", "D", "E", "F",
     "G", "H", "I", "J", "K", "L", "M", "N", "O", "P", "Q", "R", "S", "T", "U", "V",
     "W", "X", "Y", "Z"}

\* ohm, f, h in every spelling of upper and lower case
UnitSpellings ==
    {<<o, h, m>> : o \in {"o", "O"}, h \in {"h", "H"}, m \in {"m", "M"}}
    \cup {<<"f">>, <<"F">>, <<"h">>, <<"H">>}

\* a token of one of the three excluded shapes
ExcludedShape(w) ==
    \/ Len(w) >= 2 /\ w[1] \in Letters52 /\ \A i \in 2..Len(w) : w[i] \in Digits10
    \/ Len(w) >= 1 /\ \A i \in 1..Len(w) : w[i] \in Digits10
    \/ \E k \in 1..(Len(w) - 1) :
          /\ \A i \in 1..k : w[i] \in Digits10
          /\ SubSeq(w, k + 1, Len(w)) \in UnitSpellings

\* the lines of the parsed file, and the tokens of each
FileLines == SplitLines(netlist_file.content)

\* a line that gives a candidate: its first token starts with a digit, it has a
\* second token, and that token has none of the excluded shapes
GivesCandidate(line) ==
    LET t == Split(line) IN
    /\ Len(t) >= 2
    /\ t[1][1] \in Digits10
    /\ ~ExcludedShape(t[2])

\* the second tokens of the lines that give a candidate, in line order
ExpectedCandidates ==
    LET q == SelectSeq(FileLines, GivesCandidate)
    IN [i \in 1..Len(q) |-> Split(q[i])[2]]

FileIsReadable ==
    netlist_file.exists /\ netlist_file.readable /\ netlist_file.decodable

\* C8: no element of the list parse returns has one of the excluded shapes
\* (component reference, pure number, component value), in any spelling of
\* case, wherever the token stood in the netlist.
Inv_C8_NoExcludedInOutput ==
    parse_out.status = "returned" =>
        \A i \in 1..Len(parse_out.value) : ~ExcludedShape(parse_out.value[i])

\* parse returned names although a data line had an excluded second token
Witness_C8 ==
    /\ parse_out.status = "returned"
    /\ parse_out.value # <<>>
    /\ \E i \in 1..Len(FileLines) :
          LET t == Split(FileLines[i]) IN
          Len(t) >= 2 /\ t[1][1] \in Digits10 /\ ExcludedShape(t[2])

\* C9: _extract_net_names yields, in line order, exactly the second token of
\* every line that starts with a digit and has at least two tokens, unless the
\* token is excluded; no other line and no other token gives a candidate.
Inv_C9_SecondTokens ==
    parse_out.status = "returned" => parse_out.net_names = ExpectedCandidates

\* candidates were extracted from a file that also holds a comment line with
\* several tokens and a line that does not start with a digit
Witness_C9 ==
    /\ parse_out.status = "returned"
    /\ parse_out.net_names # <<>>
    /\ \E i \in 1..Len(FileLines) :
          LET t == Split(FileLines[i]) IN
          Len(t) >= 2 /\ t[1][1] \in {"*", "#", "N"}

\* C10: parse returns the surviving candidates as a strictly ascending list,
\* each name once, whatever their order and multiplicity in the file; a
\* readable file never makes it raise, and with no survivor it returns [].
Inv_C10_SortedUnique ==
    /\ (FileIsReadable /\ parse_out.status # "none") => parse_out.status = "returned"
    /\ parse_out.status = "returned" =>
          /\ Range(parse_out.value) = Range(ExpectedCandidates)
          /\ \A i \in 1..(Len(parse_out.value) - 1) :
                StrLess(parse_out.value[i], parse_out.value[i + 1])
          /\ (ExpectedCandidates = <<>> => parse_out.value = <<>>)

\* the file names two nets in descending order and parse returned both
Witness_C10 ==
    /\ parse_out.status = "returned"
    /\ Len(parse_out.net_names) = 2
    /\ StrLess(parse_out.net_names[2], parse_out.net_names[1])
    /\ Len(parse_out.value) = 2

(***************************************************************************)
(* Claims about NetClassifier, checked under SpecClassifier.               *)
(***************************************************************************)
LowerLetters ==
    <<"a", "b", "c", "d", "e", "f", "g", "h", "i", "j", "k", "l", "m",
      "n", "o", "p", "q", "r", "s", "t", "u", "v", "w", "x", "y", "z">>

UpperLetters ==
    <<"A", "B", "C", "D", "E", "F", "G", "H", "I", "J", "K", "L", "M",
      "N", "O", "P", "Q", "R", "S", "T", "U", "V", "W", "X", "Y", "Z">>

\* two characters that differ at most in case
SameLetter(a, b) ==
    \/ a = b
    \/ \E i \in 1..26 : {a, b} = {LowerLetters[i], UpperLetters[i]}

\* two strings equal when case is ignored
EqualIgnoringCase(a, b) ==
    Len(a) = Len(b) /\ \A i \in 1..Len(a) : SameLetter(a[i], b[i])

\* k is a substring of n when case is ignored
SubstringIgnoringCase(k, n) ==
    \E i \in 1..(Len(n) - Len(k) + 1) :
        EqualIgnoringCase(SubSeq(n, i, i + Len(k) - 1), k)

ListOf(cfg, key) == IF key \in DOMAIN cfg THEN cfg[key] ELSE <<>>

KeywordHit(cfg, n) ==
    \E k \in Range(ListOf(cfg, "keywords")) : SubstringIgnoringCase(k, n)

PatternHit(cfg, n) ==
    \E q \in Range(ListOf(cfg, "patterns")) : ~RegexError(q) /\ Search(q, n)

ExactHit(cfg, n) ==
    \E e \in Range(ListOf(cfg, "exact_matches")) : EqualIgnoringCase(n, e)

\* a hit of any of the three kinds
RuleHits(cfg, n) == KeywordHit(cfg, n) \/ PatternHit(cfg, n) \/ ExactHit(cfg, n)

\* the rules of the mapping that hit the name, by position
HitPositions(n) ==
    {i \in 1..Len(classification_rules) : RuleHits(classification_rules[i].config, n)}

PriorityOf(cfg) == IF "priority" \in DOMAIN cfg THEN cfg.priority ELSE 100

Classified == classify_out.status = "returned"

\* C1: when several rules match a net name, classify returns the rule that
\* comes first in the order of the rule mapping, whatever the priority values
\* of the rules and whatever kind of hit produced each match.
Inv_C1_FirstInOrder ==
    Classified =>
        \A n \in DOMAIN classify_out.results :
            LET hits == HitPositions(n) IN
            hits # {} =>
                \E i \in hits :
                    /\ \A j \in hits : i <= j
                    /\ classify_out.results[n].rule_matched = classification_rules[i].name

\* a name is classified by an earlier rule with a keyword hit only, although a
\* later rule of smaller priority value hits it exactly
Witness_C1 ==
    /\ Classified
    /\ \E n \in DOMAIN classify_out.results :
       \E i, j \in HitPositions(n) :
          /\ i < j
          /\ KeywordHit(classification_rules[i].config, n)
          /\ ~ExactHit(classification_rules[i].config, n)
          /\ ExactHit(classification_rules[j].config, n)
          /\ PriorityOf(classification_rules[j].config)
                < PriorityOf(classification_rules[i].config)
          /\ classify_out.results[n].rule_matched = classification_rules[i].name

\* C2 as claimed: a rule whose enabled flag is false is never returned as
\* rule_matched.
Claim_C2_OnlyEnabledRules ==
    Classified =>
        \A n \in DOMAIN classify_out.results :
            \A i \in 1..Len(classification_rules) :
                classify_out.results[n].rule_matched = classification_rules[i].name
                    => ("enabled" \in DOMAIN classification_rules[i].config
                            => classification_rules[i].config.enabled)

\* C3: a net name that no rule of the mapping hits is classified exactly as
\* category "Other", signal_type "Single-End", priority 999, rule_matched
\* "default".
Inv_C3_DefaultClassification ==
    Classified =>
        \A n \in DOMAIN classify_out.results :
            HitPositions(n) = {} =>
                classify_out.results[n] =
                    [category |-> "Other", signal_type |-> "Single-End",
                     priority |-> 999, rule_matched |-> "default"]

\* a mapping with rules in it, none of which hits a classified name
Witness_C3 ==
    /\ Classified
    /\ classification_rules # <<>>
    /\ \E n \in DOMAIN classify_out.results :
          HitPositions(n) = {} /\ classify_out.results[n].rule_matched = "default"

\* C4: a name is classified by a rule exactly when some rule hits it by a
\* keyword (substring, case ignored), a pattern (regex search, case ignored)
\* or an exact match (case ignored); the rule named in rule_matched is one
\* that hits, and the classification carries its category, signal_type and
\* priority.
Inv_C4_HitAndFields ==
    Classified =>
        \A n \in DOMAIN classify_out.results :
            LET r == classify_out.results[n] IN
            /\ (r.rule_matched # "default") <=> (HitPositions(n) # {})
            /\ \A i \in 1..Len(classification_rules) :
                  LET cfg == classification_rules[i].config IN
                  r.rule_matched = classification_rules[i].name =>
                      /\ RuleHits(cfg, n)
                      /\ "category" \in DOMAIN cfg => r.category = cfg.category
                      /\ "signal_type" \in DOMAIN cfg => r.signal_type = cfg.signal_type
                      /\ "priority" \in DOMAIN cfg => r.priority = cfg.priority

\* a name classified by a rule whose only hit is a keyword in another case
Witness_C4 ==
    /\ Classified
    /\ \E n \in DOMAIN classify_out.results :
       \E i \in 1..Len(classification_rules) :
          LET cfg == classification_rules[i].config IN
          /\ classify_out.results[n].rule_matched = classification_rules[i].name
          /\ KeywordHit(cfg, n)
          /\ ~PatternHit(cfg, n)
          /\ ~ExactHit(cfg, n)
          /\ \A k \in Range(ListOf(cfg, "keywords")) : ~Contains(n, k)
          /\ classify_out.results[n].category = cfg.category

(***************************************************************************)
(* Claims about TemplateMapper (SpecMapper) and the pipeline (SpecRun).    *)
(***************************************************************************)
\* the item of the layout data given to map_to_template that names a net
MapItem(name) ==
    map_in.layout_data[CHOOSE i \in 1..Len(map_in.layout_data) :
                          map_in.layout_data[i].net_name = name]

\* the priority a net sorts by
MapPriority(name) ==
    IF "priority" \in DOMAIN MapItem(name).info THEN MapItem(name).info.priority ELSE 999

\* C5 as claimed: for any set of nets map_to_template succeeds, with one row
\* per net, the rows in ascending priority and, at equal priority, in the
\* alphabetical order of the net names.
Claim_C5_RowsSorted ==
    map_out.status # "none" =>
        /\ map_out.status = "returned"
        /\ {map_out.file.rows[i]["Net Name"] : i \in 1..Len(map_out.file.rows)}
              = {map_in.layout_data[i].net_name : i \in 1..Len(map_in.layout_data)}
        /\ \A i \in 1..(Len(map_out.file.rows) - 1) :
              LET a == map_out.file.rows[i]["Net Name"]
                  b == map_out.file.rows[i + 1]["Net Name"]
              IN \/ MapPriority(a) < MapPriority(b)
                 \/ MapPriority(a) = MapPriority(b) /\ StrLess(a, b)

\* the configuration of the run loads and validates
RunConfigValid ==
    LoadConfig(run_in.config_path, run_in.default_config).status = "returned"

RunConfig == LoadConfig(run_in.config_path, run_in.default_config).value

\* the netlist of the run parses
RunNetlistParses == ParseFile(run_in.netlist).status = "returned"

\* C6 as claimed: a run on a netlist from which no net name survives ends
\* without an error, with an output of zero data rows.
Claim_C6_EmptyNetlistNoError ==
    (/\ run_out.status # "none"
     /\ RunConfigValid
     /\ RunNetlistParses
     /\ ParseFile(run_in.netlist).value = <<>>)
        => /\ run_out.status = "returned"
           /\ run_out.file.rows = <<>>

\* C7 as claimed: with a readable netlist and a valid configuration the run
\* writes exactly one row per parsed net name, whose Net Name is that net and
\* whose Category is the category the classifier gives it under the
\* configured rules.
Claim_C7_OneRowPerNet ==
    (/\ run_out.status # "none"
     /\ RunConfigValid
     /\ RunNetlistParses)
        => /\ run_out.status = "returned"
           /\ Len(run_out.file.rows) = Len(ParseFile(run_in.netlist).value)
           /\ \A n \in Range(ParseFile(run_in.netlist).value) :
                 \E i \in 1..Len(run_out.file.rows) :
                    /\ run_out.file.rows[i]["Net Name"] = n
                    /\ run_out.file.rows[i]["Category"] =
                          ClassifySingleNet(RunConfig["net_classification_rules"], n).category

(***************************************************************************)
(* Claims about RuleEngine, checked under SpecEngine.                      *)
(***************************************************************************)
\* the fixed table from category to layout-rule key, "" for no entry
TableKey(category) ==
    CASE category = "Communication Interface" -> "I2C"
      [] category = "High Speed Interface" -> "PCIe"
      [] category = "RF" -> "RF"
      [] category = "Power" -> "Power"
      [] OTHER -> ""

\* the built-in value of a layout field
BuiltIn(field) ==
    CASE field = "impedance" -> "50 Ohm"
      [] field = "description" -> "General purpose signal"
      [] field = "width" -> "TBD"
      [] field = "length_limit" -> "TBD"
      [] field = "spacing" -> "TBD"
      [] field = "via_rules" -> "Standard"
      [] field = "layer_stack" -> "Any"
      [] field = "shielding" -> "Optional"

LayoutFields ==
    {"impedance", "description", "width", "length_limit", "spacing", "via_rules",
     "layer_stack", "shielding"}

\* the layout fields of info are those of the rule, the built-in value where
\* the rule has none
TakenFrom(info, rule) ==
    \A f \in LayoutFields : info[f] = IF f \in DOMAIN rule THEN rule[f] ELSE BuiltIn(f)

\* the i-th classification given to apply_rules and the record returned for it
GivenClassification(i) == engine_in.classified_nets[i].classification
ReturnedInfo(i) == engine_out.results[i].info

\* C11: a signal_type that is a key of the layout rules selects that rule
\* whatever the category; otherwise the category goes through the fixed table
\* and the mapped rule is used if and only if its key is among the rules.
Inv_C11_SignalTypeFirst ==
    engine_out.status = "returned" =>
        \A i \in 1..Len(engine_in.classified_nets) :
            LET c == GivenClassification(i)
                rules == engine_out.layout_rules
            IN /\ c.signal_type \in DOMAIN rules
                     => TakenFrom(ReturnedInfo(i), rules[c.signal_type])
               /\ (c.signal_type \notin DOMAIN rules /\ TableKey(c.category) \in DOMAIN rules)
                     => TakenFrom(ReturnedInfo(i), rules[TableKey(c.category)])
               /\ (/\ c.signal_type \notin DOMAIN rules
                   /\ TableKey(c.category) \notin DOMAIN rules
                   /\ "Default" \in DOMAIN rules)
                     => TakenFrom(ReturnedInfo(i), rules["Default"])

\* a net whose signal_type names one rule and whose category maps to another
Witness_C11 ==
    /\ engine_out.status = "returned"
    /\ \E i \in 1..Len(engine_in.classified_nets) :
          LET c == GivenClassification(i)
              rules == engine_out.layout_rules
          IN /\ c.signal_type \in DOMAIN rules
             /\ TableKey(c.category) \in DOMAIN rules
             /\ rules[TableKey(c.category)] # rules[c.signal_type]
             /\ ReturnedInfo(i).impedance = rules[c.signal_type].impedance

\* C12: a classification whose signal_type is no rule key and whose category
\* is not in the table takes the fields of the rule keyed "Default", and the
\* built-in values when there is no such rule.
Inv_C12_DefaultThenBuiltIn ==
    engine_out.status = "returned" =>
        \A i \in 1..Len(engine_in.classified_nets) :
            LET c == GivenClassification(i)
                rules == engine_out.layout_rules
            IN (c.signal_type \notin DOMAIN rules /\ TableKey(c.category) = "")
                  => IF "Default" \in DOMAIN rules
                     THEN TakenFrom(ReturnedInfo(i), rules["Default"])
                     ELSE \A f \in LayoutFields : ReturnedInfo(i)[f] = BuiltIn(f)

\* a net resolved to the Default rule although other rules are configured
Witness_C12 ==
    /\ engine_out.status = "returned"
    /\ \E i \in 1..Len(engine_in.classified_nets) :
          LET c == GivenClassification(i)
              rules == engine_out.layout_rules
          IN /\ c.signal_type \notin DOMAIN rules
             /\ TableKey(c.category) = ""
             /\ {"Default", "RF"} \subseteq DOMAIN rules
             /\ ReturnedInfo(i).impedance = rules["Default"].impedance
             /\ ReturnedInfo(i).impedance # BuiltIn("impedance")

\* C16: apply_rules returns one record per classified net and no other, each
\* with net_name equal to its key and with the category, signal_type,
\* rule_matched and priority of the net's classification.
Inv_C16_OneRecordPerNet ==
    engine_out.status = "returned" =>
        /\ Len(engine_out.results) = Len(engine_in.classified_nets)
        /\ {engine_out.results[i].net_name : i \in 1..Len(engine_out.results)}
              = {engine_in.classified_nets[i].net_name
                    : i \in 1..Len(engine_in.classified_nets)}
        /\ \A i, j \in 1..Len(engine_out.results) :
              i # j => engine_out.results[i].net_name # engine_out.results[j].net_name
        /\ \A i \in 1..Len(engine_out.results) :
              \E j \in 1..Len(engine_in.classified_nets) :
                 LET c == engine_in.classified_nets[j].classification
                     info == engine_out.results[i].info
                 IN /\ engine_in.classified_nets[j].net_name = engine_out.results[i].net_name
                    /\ info.net_name = engine_out.results[i].net_name
                    /\ info.category = c.category
                    /\ info.signal_type = c.signal_type
                    /\ info.rule_matched = c.rule_matched
                    /\ info.priority = c.priority

\* two nets of different priorities, neither the default one
Witness_C16 ==
    /\ engine_out.status = "returned"
    /\ Len(engine_out.results) = 2
    /\ engine_out.results[1].info.priority = 1
    /\ engine_out.results[2].info.priority = 100
    /\ engine_out.results[1].info.rule_matched # "default"

(***************************************************************************)
(* Claims about the columns TemplateMapper emits, checked under SpecMapper. *)
(***************************************************************************)
\* the display headers of the schema the mapper was configured with, in
\* schema order
SchemaHeaders ==
    [i \in 1..Len(reorder_out.column_mapping) |-> reorder_out.column_mapping[i][2]]

\* C13 as claimed: the columns emitted are the columns of the configured schema
\* that the data has, in schema order, and priority is not among them.
Claim_C13_SchemaColumns ==
    (reorder_out.status = "returned" /\ map_in.layout_data # <<>>) =>
        /\ reorder_out.df.columns =
              SelectSeq(SchemaHeaders, LAMBDA h : h \in Range(row_data_keys))
        /\ "priority" \notin Range(reorder_out.df.columns)

(***************************************************************************)
(* Further claims about NetClassifier, checked under SpecClassifier.       *)
(***************************************************************************)
\* the rules of the mapping that hold a pattern that is no regular expression
RulesWithBadPattern ==
    {i \in 1..Len(classification_rules) :
        \E q \in Range(ListOf(classification_rules[i].config, "patterns")) : RegexError(q)}

Inv_C17_ParseErrorOnly ==
    parse_out.status # "none" =>
        /\ (~netlist_file.exists \/ ~netlist_file.readable \/ ~netlist_file.decodable)
              => /\ parse_out.status = "raised"
                 /\ parse_out.exc = "NetlistParseError"
                 /\ "value" \notin DOMAIN parse_out
        /\ (netlist_file.exists /\ netlist_file.readable /\ ~netlist_file.decodable)
              => parse_out.cause = "UnicodeDecodeError"
        /\ parse_out.status = "raised" => parse_out.exc = "NetlistParseError"

\* a file that is there and opens, and whose bytes are not UTF-8
Witness_C17 ==
    /\ netlist_file.exists /\ netlist_file.readable /\ ~netlist_file.decodable
    /\ parse_out.status = "raised"
    /\ parse_out.exc = "NetlistParseError"
    /\ parse_out.cause = "UnicodeDecodeError"

(***************************************************************************)
(* Claims about the order and the abort of a run, checked under SpecRun.   *)
(***************************************************************************)
\* the configuration file load_config reads in the run
RunConfigFile ==
    IF run_in.config_path.given /\ run_in.config_path.exists
    THEN run_in.config_path ELSE run_in.default_config

\* the rules of a section that lack one of the fields required of them, with
\* that field
Lacking(section, fields) ==
    {p \in {section[i].name : i \in 1..Len(section)} \X fields :
        \E i \in 1..Len(section) :
            section[i].name = p[1] /\ p[2] \notin DOMAIN section[i].config}

\* every rule of the configuration read that lacks a required field, with it
LackingRules ==
    Lacking(RunConfigFile.data["net_classification_rules"],
            {"category", "signal_type", "priority"})
    \cup Lacking(RunConfigFile.data["layout_rules"], {"impedance", "description"})

\* C18: when a classification rule or a layout rule of the configuration lacks
\* a required field, load_config raises a configuration error that names such
\* a rule and the field, and the run parses no netlist, classifies nothing,
\* applies no rule and writes no output.
Inv_C18_RejectedAtValidation ==
    (/\ run_out.status # "none"
     /\ RunConfigFile.exists /\ RunConfigFile.loads
     /\ {"net_classification_rules", "layout_rules", "template_mapping"}
           \subseteq DOMAIN RunConfigFile.data
     /\ LackingRules # {})
        => /\ run_out.status = "raised"
           /\ run_out.exc = "ConfigurationError"
           /\ run_out.stages = <<"load_config">>
           /\ run_out.net_names = <<>>
           /\ run_out.file = NoOutput
           /\ LET e == LoadConfig(run_in.config_path, run_in.default_config)
              IN e.status = "raised" /\ <<e.rule, e.field>> \in LackingRules

\* a run given a netlist that parses and a configuration whose layout rule SPI
\* has no description
Witness_C18 ==
    /\ run_out.status = "raised"
    /\ run_out.exc = "ConfigurationError"
    /\ run_out.stages = <<"load_config">>
    /\ RunNetlistParses
    /\ ParseFile(run_in.netlist).value # <<>>
    /\ RunConfigFile.exists /\ RunConfigFile.loads
    /\ "layout_rules" \in DOMAIN RunConfigFile.data
    /\ LackingRules = {<<"SPI", "description">>}

\* the stages of a run, in the order of the code
StageOrder == <<"load_config", "parse", "classify", "apply_rules", "map_to_template">>

MapOutputPath ==
    IF map_in.output_path = "None" THEN "layout_guide_output.xlsx" ELSE map_in.output_path

\* C20 as claimed: when the styled write fails the rows are written unstyled
\* to the same path; if that write succeeds map_to_template returns the output
\* path, and if it fails too map_to_template fails with TemplateMappingError
\* carrying the cause of the failure.
Claim_C20_FallbackWrite ==
    (map_out.status # "none" /\ ~map_in.disk.styled_write_ok) =>
        IF map_in.disk.plain_write_ok
        THEN /\ map_out.status = "returned"
             /\ map_out.value = MapOutputPath
             /\ map_out.file.path = MapOutputPath
             /\ ~map_out.file.styled
             /\ Len(map_out.file.rows) = Len(map_in.layout_data)
        ELSE /\ map_out.status = "raised"
             /\ map_out.exc = "TemplateMappingError"
             /\ map_out.cause = "OSError"

(***************************************************************************)
(* Claim about validate_template, checked under SpecTemplate.              *)
(***************************************************************************)
\* C21: validate_template returns true exactly when the template file exists,
\* can be read and has the columns Category, Net Name and Description; in every
\* other case it returns false, and it never raises.
Inv_C21_TemplateValid ==
    validate_out.status # "none" =>
        /\ validate_out.status = "returned"
        /\ validate_out.value =
              (/\ template_file.exists
               /\ template_file.readable
               /\ {"Category", "Net Name", "Description"} \subseteq template_file.columns)

\* a file at the path that cannot be read as a workbook
Witness_C21 ==
    /\ template_file.exists /\ ~template_file.readable
    /\ validate_out.status = "returned"
    /\ validate_out.value = FALSE

(***************************************************************************)
(* Claims about one rule engine across calls, checked under                *)
(* SpecEngineSession.                                                      *)
(***************************************************************************)
\* the field is a key of the rule config and its value is not empty
HasNonEmpty(rule_config, field) == field \in DOMAIN rule_config /\ rule_config[field] # ""

\* C22 as claimed: validate_rule_config returns true exactly for a rule config
\* with a non-empty impedance and a non-empty description, false when either
\* is missing or empty; it does not raise and leaves the layout rules as they
\* were.
Claim_C22_NonEmptyFields ==
    \A i \in 1..Len(engine_log) :
        engine_log[i].op = "validate_rule_config" =>
            /\ engine_log[i].status = "returned"
            /\ engine_log[i].value =
                  (/\ HasNonEmpty(engine_log[i].rule_config, "impedance")
                   /\ HasNonEmpty(engine_log[i].rule_config, "description"))
            /\ engine_log[i].after = engine_log[i].before

\* no add_custom_rule for rule_type among the calls after the i-th and before
\* the j-th
NotRegisteredBetween(rule_type, i, j) ==
    \A k \in (i + 1)..(j - 1) :
        ~(engine_log[k].op = "add_custom_rule" /\ engine_log[k].rule_type = rule_type)

\* C23: add_custom_rule(name, config) puts config under name, whatever the
\* config holds and whether or not the name was registered, and changes no
\* other layout rule; every later apply_rules gives a net whose signal_type is
\* that name the layout fields of the config registered last.
Inv_C23_RegisterOverwrite ==
    \A i \in 1..Len(engine_log) :
        engine_log[i].op = "add_custom_rule" =>
            LET call == engine_log[i] IN
            /\ DOMAIN call.after = DOMAIN call.before \cup {call.rule_type}
            /\ call.after[call.rule_type] = call.rule_config
            /\ \A k \in DOMAIN call.before \ {call.rule_type} :
                  call.after[k] = call.before[k]
            /\ \A j \in (i + 1)..Len(engine_log) :
                  (engine_log[j].op = "apply_rules"
                   /\ NotRegisteredBetween(call.rule_type, i, j)) =>
                      \A n \in 1..Len(engine_log[j].classified_nets) :
                          engine_log[j].classified_nets[n].classification.signal_type
                              = call.rule_type
                          => TakenFrom(engine_log[j].results[n].info, call.rule_config)

\* a rule without description registered over the built-in I2C rule, then
\* applied to an I2C net
Witness_C23 ==
    /\ Len(engine_log) >= 2
    /\ engine_log[1].op = "add_custom_rule"
    /\ engine_log[1].rule_type = "I2C"
    /\ "I2C" \in DOMAIN engine_log[1].before
    /\ ~ValidateRuleConfig(engine_log[1].rule_config)
    /\ engine_log[2].op = "apply_rules"
    /\ engine_log[2].classified_nets[1].classification.signal_type = "I2C"

(***************************************************************************)
(* Claim about NetClassifier.add_custom_rule, checked under SpecSession.   *)
(***************************************************************************)
\* the last call was add_custom_rule
AddCalled == classify_out.status \in {"raised", "added"}

\* C24: add_custom_rule with a config that lacks category or signal_type
\* raises NetClassificationError naming a field the config lacks and leaves
\* the rules as they were, so every list of nets is classified after the
\* failed call as it was before it.
Inv_C24_RejectedRuleLeavesRules ==
    (AddCalled /\ ~({"category", "signal_type"} \subseteq DOMAIN classify_out.rule_config)) =>
        /\ classify_out.status = "raised"
        /\ classify_out.exc = "NetClassificationError"
        /\ classify_out.field \in {"category", "signal_type"} \ DOMAIN classify_out.rule_config
        /\ classify_out.rules_after = classify_out.rules_before
        /\ classification_rules = classify_out.rules_before
        /\ \A net_names \in SessionNetLists :
              Classify(classification_rules, net_names)
                  = Classify(classify_out.rules_before, net_names)

\* a rule with category and without signal_type refused by a classifier that
\* has classified nets before
Witness_C24 ==
    /\ classify_out.status = "raised"
    /\ classify_out.field = "signal_type"
    /\ classify_log # <<>>
    /\ classification_rules # <<>>

(***************************************************************************)
(* Claim about LayoutRuleController.add_rule, checked under SpecController.*)
(***************************************************************************)
\* the last call was an add_rule whose load_from_dict failed
LoadFailedInAddRule ==
    /\ ctl_out.status # "none"
    /\ ctl_out.op = "add_rule"
    /\ ctl_out.rule_name \notin DOMAIN ctl_out.layout_rules_before
    /\ Truthy(ctl_out.rule_data)
    /\ LayoutRuleLoadFromDict(ctl_out.rule_name, ctl_out.rule_data).status = "raised"

\* C25: when load_from_dict fails inside add_rule the controller logs one
\* error record for the rule with the traceback, emits errorOccurred with the
\* message of the exception and nothing else, raises that exception to the
\* caller, and layout_rules is as before, without the new rule.
Inv_C25_LoadFailureReported ==
    LoadFailedInAddRule =>
        LET failure == LayoutRuleLoadFromDict(ctl_out.rule_name, ctl_out.rule_data) IN
        /\ ctl_out.status = "raised"
        /\ ctl_out.result.exc = failure.exc
        /\ ctl_records =
              Append(ctl_out.records_before,
                     [level |-> "ERROR", rule_name |-> ctl_out.rule_name,
                      message |-> failure.message, exc_info |-> TRUE])
        /\ ctl_signals =
              Append(ctl_out.signals_before,
                     [signal |-> "errorOccurred", arg |-> failure.message])
        /\ ctl_layout_rules = ctl_out.layout_rules_before
        /\ ctl_out.rule_name \notin DOMAIN ctl_layout_rules

\* a list given as the data of a rule the controller does not hold, after a
\* rule has been added
Witness_C25 ==
    /\ LoadFailedInAddRule
    /\ ctl_out.status = "raised"
    /\ ctl_out.signals_before # <<>>
    /\ ctl_layout_rules # EmptyDict

(***************************************************************************)
(* Claims about the configuration controller, checked under                *)
(* SpecConfigSession.                                                      *)
(***************************************************************************)
\* a configuration as dicts: equal whatever the order of the rules
ConfigDict(config_data) ==
    [net_classification_rules |-> AsDict(config_data.net_classification_rules),
     layout_rules |-> AsDict(config_data.layout_rules)]

ChangeOps ==
    {"add_signal_rule", "remove_signal_rule", "add_layout_rule", "remove_layout_rule"}

\* C27 as claimed: undo() called after a change of the model (a signal or
\* layout rule added or removed) succeeds and leaves the model with the
\* configuration it had immediately before that change.
Claim_C27_UndoRestoresBefore ==
    \A i \in 1..(Len(config_log) - 1) :
        (/\ config_log[i].op \in ChangeOps
         /\ config_log[i].value
         /\ config_log[i + 1].op = "undo") =>
            /\ config_log[i + 1].value
            /\ ConfigDict(config_log[i + 1].after) = ConfigDict(config_log[i].before)

\* C28 as claimed: right after load_config_file has returned true,
\* is_modified is false and the undo stack and the redo stack are empty.
Claim_C28_CleanAfterLoad ==
    (/\ config_log # <<>>
     /\ config_log[Len(config_log)].op = "load_config_file"
     /\ config_log[Len(config_log)].value) =>
        /\ is_modified = FALSE
        /\ undo_stack = <<>>
        /\ redo_stack = <<>>

(***************************************************************************)
(* Claim about the background run, checked under SpecWorker.               *)
(***************************************************************************)
\* C26 as claimed: the classification rules of the configuration a run works
\* with are those the model held at one instant of the run, under every
\* interleaving of the edits of the GUI thread with the worker.
Claim_C26_ConsistentSnapshot ==
    (worker_pc \in {"saved", "done"} /\ worker_out.file.written) =>
        \E config \in model_history :
            worker_out.file.data.net_classification_rules = config.net_classification_rules

(***************************************************************************)
(* Claim about the template mapping model, checked under SpecMapping.      *)
(***************************************************************************)
\* C29 as claimed: after any sequence of the column operations on a default
\* model, column_order holds every key of columns once and nothing else.
Claim_C29_OrderIsPermutation ==
    /\ Range(tm_column_order) = Range(ColumnKeys(tm_columns))
    /\ \A i, j \in 1..Len(tm_column_order) :
          i # j => tm_column_order[i] # tm_column_order[j]

(***************************************************************************)
(* Claim about the rule tester, checked under SpecTester.                  *)
(***************************************************************************)
\* the nets of the list NetClassifier._matches_rule accepts for the
\* dictionary form of the rule
ClassifierMatched(rule, net_list) ==
    LET Matched(net) == MatchesRule(net, SignalRuleToDict(rule))
    IN SelectSeq(net_list, Matched)

TestedRule == RuleNamed(tester_in.signal_rules, tester_in.rule_name)

\* C30: for an enabled rule the tester reports exactly the nets that
\* _matches_rule accepts for the rule's to_dict form, a rule with a pattern
\* that does not compile included.
Inv_C30_TesterAgreesWithClassifier ==
    (/\ tester_out.status = "returned"
     /\ HasRule(tester_in.signal_rules, tester_in.rule_name)
     /\ TestedRule.enabled)
        => tester_out.matched_nets = ClassifierMatched(TestedRule, tester_in.net_list)

\* an enabled rule whose only criteria are patterns, one of which does not
\* compile, was tested on two nets and matched one of them
Witness_C30 ==
    /\ tester_out.status = "returned"
    /\ HasRule(tester_in.signal_rules, tester_in.rule_name)
    /\ TestedRule.enabled
    /\ TestedRule.keywords = <<>> /\ TestedRule.exact_matches = <<>>
    /\ \E i \in 1..Len(TestedRule.patterns) : RegexError(TestedRule.patterns[i])
    /\ Len(tester_in.net_list) = 2
    /\ Len(tester_out.matched_nets) = 1

====
